---------------------------- MODULE Spec2Model ----------------------------
(***************************************************************************)
(* Model of the chunked DEM download pipeline of dem-manager:              *)
(*   src/src/pipeline/dem_fetcher.py  (DEMFetcher, fetch_dem)              *)
(* and of the job dispatch and status file of the web application:         *)
(*   src/app/dem_operations.py  (fetch_dem_api, fetch_dem_thread,          *)
(*                               check_dem_status)                         *)
(*                                                                         *)
(* together with four functions that stand beside them:                    *)
(*   src/src/pipeline/dem_fetcher_raw.py       (download_high_res_dem)     *)
(*   src/src/pipeline/wcs_geotiff_handler.py   (fetch_geotiff_dem_tiled,   *)
(*                                              fetch_tile)                *)
(*   src/app/dem_operations.py                 (fetch_dem,                 *)
(*                                              LoggingDEMHandler)         *)
(*                                                                         *)
(* Eight specifications are defined:                                       *)
(*   Spec    - one run of fetch_dem: construction, service probe, the     *)
(*             retry loop of export_image_chunk, georeferencing, merge,   *)
(*             verification and every update_status call;                 *)
(*   FnSpec  - the pure arithmetic of DEMFetcher.__init__ and             *)
(*             get_chunk_bbox applied to inputs drawn from bounded sets.  *)
(*   OpsSpec - fetch_dem_api calls, the worker threads they start and a   *)
(*             check_dem_status poller, interleaved at the granularity of *)
(*             lock operations and file reads, truncations and writes.    *)
(*   RawSpec    - one run of dem_fetcher_raw's download_high_res_dem;     *)
(*   TileSpec   - one call of fetch_tile, request by request;             *)
(*   TiledSpec  - one run of fetch_geotiff_dem_tiled, tile by tile;       *)
(*   StdoutSpec - successive dem_operations.fetch_dem calls and           *)
(*                sys.stdout;                                             *)
(*   LogSpec    - two workers attaching their log handlers and wrapping   *)
(*                builtins.print around their DEM handler.                *)
(*                                                                         *)
(* Python floats are modelled as binary floating-point numbers with a     *)
(* MantBits-bit significand and round-to-nearest-even, so that rounding   *)
(* in bbox arithmetic is something the checks can observe.                *)
(***************************************************************************)
EXTENDS Integers, Sequences, FiniteSets, TLC

(***************************************************************************)
(* Bounds of the model                                                     *)
(***************************************************************************)
\* significand width of the modelled floats (CPython doubles have 53)
MantBits == 12
\* largest rows/cols of a grid handed to get_chunk_bbox in FnSpec
MaxGrid == 3

(***************************************************************************)
(* Binary floating point: a float is <<m, e>> and stands for m * 2^e.      *)
(* Canonical form: zero is <<0, 0>>, otherwise m is odd.  Canonical floats *)
(* are equal as tuples exactly when they are equal as numbers.             *)
(***************************************************************************)
RECURSIVE Pow2(_)
Pow2(n) == IF n <= 0 THEN 1 ELSE 2 * Pow2(n - 1)

Abs(x) == IF x < 0 THEN -x ELSE x

Sgn(x) == IF x < 0 THEN -1 ELSE 1

RECURSIVE Canon(_, _)
Canon(m, e) ==
    IF m = 0 THEN <<0, 0>>
    ELSE IF m % 2 = 0 THEN Canon(m \div 2, e + 1)
    ELSE <<m, e>>

\* nearest float to (N / D) * 2^e for N >= 0, D > 0; ties go to the even significand
RECURSIVE RoundRat(_, _, _)
RoundRat(N, D, e) ==
    IF N = 0 THEN <<0, 0>>
    ELSE IF N >= D * Pow2(MantBits) THEN RoundRat(N, 2 * D, e + 1)
    ELSE IF N < D * Pow2(MantBits - 1) THEN RoundRat(2 * N, D, e - 1)
    ELSE LET q == N \div D
             r == N % D
             up == (2 * r > D) \/ (2 * r = D /\ q % 2 = 1)
         IN  Canon(IF up THEN q + 1 ELSE q, e)

Neg(a) == <<-a[1], a[2]>>

\* float(n) for an integer n
FromInt(n) == LET f == RoundRat(Abs(n), 1, 0) IN <<Sgn(n) * f[1], f[2]>>

\* the float a decimal literal num/den denotes (den > 0)
FromDecimal(num, den) ==
    LET f == RoundRat(Abs(num), den, 0) IN <<Sgn(num) * f[1], f[2]>>

\* a + b, correctly rounded
FAdd(a, b) ==
    LET e == IF a[2] < b[2] THEN a[2] ELSE b[2]
        s == a[1] * Pow2(a[2] - e) + b[1] * Pow2(b[2] - e)
        f == RoundRat(Abs(s), 1, e)
    IN  <<Sgn(s) * f[1], f[2]>>

FSub(a, b) == FAdd(a, Neg(b))

\* a / b for floats, correctly rounded (b # 0)
FDiv(a, b) ==
    LET f == RoundRat(Abs(a[1]), Abs(b[1]), a[2] - b[2])
    IN  <<Sgn(a[1]) * Sgn(b[1]) * f[1], f[2]>>

\* a / n for a float a and a positive int n (Python converts n to float; n is small and exact)
FDivInt(a, n) ==
    LET f == RoundRat(Abs(a[1]), n, a[2]) IN <<Sgn(a[1]) * f[1], f[2]>>

\* n * a for a non-negative int n and a float a
FMulInt(n, a) ==
    LET f == RoundRat(n * Abs(a[1]), 1, a[2]) IN <<Sgn(a[1]) * f[1], f[2]>>

\* int(a): truncation toward zero
Trunc(a) ==
    IF a[2] >= 0 THEN a[1] * Pow2(a[2])
    ELSE Sgn(a[1]) * (Abs(a[1]) \div Pow2(-a[2]))

\* a <= b as numbers
FLeq(a, b) ==
    LET e == IF a[2] < b[2] THEN a[2] ELSE b[2]
    IN  a[1] * Pow2(a[2] - e) <= b[1] * Pow2(b[2] - e)

FLess(a, b) == FLeq(a, b) /\ a # b

(***************************************************************************)
(* DEMFetcher.__init__ : request planning                                  *)
(***************************************************************************)
max_request_size == 4000

max_retries == 3

MetersPerDegree == 111000

Max(a, b) == IF a >= b THEN a ELSE b

Min(a, b) == IF a <= b THEN a ELSE b

\* self.width_deg = bbox[2] - bbox[0]
width_deg(bbox) == FSub(bbox[3], bbox[1])

\* self.height_deg = bbox[3] - bbox[1]
height_deg(bbox) == FSub(bbox[4], bbox[2])

\* self.approx_res_deg = target_res_meters / 111000
approx_res_deg(res) == RoundRat(res, MetersPerDegree, 0)

\* self.required_width = int(self.width_deg / self.approx_res_deg)
required_width(bbox, res) == Trunc(FDiv(width_deg(bbox), approx_res_deg(res)))

\* self.required_height = int(self.height_deg / self.approx_res_deg)
required_height(bbox, res) == Trunc(FDiv(height_deg(bbox), approx_res_deg(res)))

\* the grid size computed with a true ceiling instead of floor-plus-one
split_requests_ceil(rw, rh) ==
    Max(1, (Max(rw, rh) + max_request_size - 1) \div max_request_size)

\* self.split_requests = max(1, max(rw, rh) // max_request_size + 1)
split_requests(rw, rh) == Max(1, Max(rw, rh) \div max_request_size + 1)

\* chunk dimension that asks for the whole required dimension in every chunk
chunk_dim_whole(req, split) == req

\* self.chunk_width / self.chunk_height for one axis
chunk_dim(req, split) ==
    IF split > 1 THEN Min(max_request_size, req \div split + 1)
    ELSE Min(req, max_request_size)

(***************************************************************************)
(* DEMFetcher.get_chunk_bbox                                               *)
(***************************************************************************)
\* get_chunk_bbox whose maxx skips one column
get_chunk_bbox_noinc(bbox, row, col, rows, cols) ==
    LET chunk_width_deg == FDivInt(width_deg(bbox), cols)
        chunk_height_deg == FDivInt(height_deg(bbox), rows)
    IN  << FAdd(bbox[1], FMulInt(col, chunk_width_deg)),
           FAdd(bbox[2], FMulInt(row, chunk_height_deg)),
           FAdd(bbox[1], FMulInt(col + 2, chunk_width_deg)),
           FAdd(bbox[2], FMulInt(row + 1, chunk_height_deg)) >>

get_chunk_bbox(bbox, row, col, rows, cols) ==
    LET chunk_width_deg == FDivInt(width_deg(bbox), cols)
        chunk_height_deg == FDivInt(height_deg(bbox), rows)
    IN  << FAdd(bbox[1], FMulInt(col, chunk_width_deg)),
           FAdd(bbox[2], FMulInt(row, chunk_height_deg)),
           FAdd(bbox[1], FMulInt(col + 1, chunk_width_deg)),
           FAdd(bbox[2], FMulInt(row + 1, chunk_height_deg)) >>

(***************************************************************************)
(* State                                                                   *)
(***************************************************************************)
VARIABLES
    \* FnSpec: input handed to a pure function and its result
    fin, fout,
    \* Spec: arguments of fetch_dem
    bbox, target_res, data_type, has_status_file,
    \* Spec: the fields DEMFetcher.__init__ computed from the arguments
    self,
    \* Spec: how the service answered the availability probe
    probe,
    \* Spec: control position and return value of fetch_dem
    pc, result,
    \* Spec: every record update_status was given for the status file, in order
    statusLog,
    \* Spec: locals of download_high_res_dem
    row, col, current_chunk, failed_chunks, chunk_files, georef_chunk_files, gi,
    \* Spec: locals of export_image_chunk and what it returned
    attempt, requests, waits, chunk_ret,
    \* Spec: arguments of every export_image_chunk / add_georeference_to_chunk call
    exportLog, georefLog,
    \* Spec: the output file, whether verify_geotiff accepted it, whether a merge ran
    output_file, verified, merge_called,
    \* Spec: TRUE once the environment (service, disk, raster library) misbehaved
    envFault,
    \* OpsSpec: every fetch_dem_api call so far, as request and response
    api_calls,
    \* OpsSpec: the DEM files and the status files in DEM_DIR, the holder of each
    \* status file's lock (0 = free, j = worker of call j)
    dem_files, status_files, lock,
    \* OpsSpec: position and locals of each fetch_dem_thread
    wpc, wlocal,
    \* OpsSpec: position and locals of the check_dem_status call in progress and
    \* the last response of check_dem_status
    ppc, plocal, p_resp,
    \* OpsSpec: per worker the first status update whose lock acquisition timed
    \* out (0 = none), the DEM handler invoked, whether opening the log file failed
    w_timeouts, handler_called, log_fault,
    \* OpsSpec: per status file the class of the first terminal status stored
    first_terminal,
    \* RawSpec: one run of dem_fetcher_raw.DEMFetcher.download_high_res_dem
    raw_job,
    \* TiledSpec: one run of wcs_geotiff_handler.fetch_geotiff_dem_tiled
    tiled_job,
    \* TileSpec: one call of wcs_geotiff_handler.fetch_tile
    tile_call,
    \* StdoutSpec: sys.stdout and the dem_operations.fetch_dem call in progress
    stdout_state,
    \* LogSpec: builtins.print, the handlers of logger 'dem_fetch', the log files
    \* and the two fetch_dem_thread workers inside LoggingDEMHandler
    log_state

opsVars == <<api_calls, dem_files, status_files, lock, wpc, wlocal, ppc, plocal, p_resp,
             w_timeouts, handler_called, log_fault, first_terminal>>

fnVars == <<fin, fout>>

auxVars == <<raw_job, tiled_job, tile_call, stdout_state, log_state>>

jobVars == <<bbox, target_res, data_type, has_status_file, self, probe, pc, result, statusLog,
             row, col, current_chunk, failed_chunks, chunk_files, georef_chunk_files, gi,
             attempt, requests, waits, chunk_ret, exportLog, georefLog,
             output_file, verified, merge_called, envFault>>

vars == <<fin, fout, bbox, target_res, data_type, has_status_file, self, probe, pc, result, statusLog,
          row, col, current_chunk, failed_chunks, chunk_files, georef_chunk_files, gi,
          attempt, requests, waits, chunk_ret, exportLog, georefLog,
          output_file, verified, merge_called, envFault,
          opsVars, auxVars>>

(***************************************************************************)
(* Values of the variables of a specification that is not running          *)
(***************************************************************************)
NoRaw == [pc |-> "idle", n |-> 1, row |-> 0, col |-> 0, current_chunk |-> 0,
          attempted |-> {}, chunk_files |-> <<>>, georef_chunk_files |-> <<>>,
          merge_calls |-> <<>>, statusLog |-> <<>>, output_file |-> "absent",
          result |-> "none"]
NoTiled == [pc |-> "idle", dem_type |-> "national_1s", num_tiles_x |-> 1, num_tiles_y |-> 1,
            tile_count |-> 0, tile_files |-> <<>>, fetch_log |-> <<>>,
            oi |-> 0, src_files_to_mosaic |-> <<>>, open_log |-> <<>>,
            merge |-> "none", success |-> "none", message |-> ""]
NoTile == [pc |-> "idle", attempt |-> 0, events |-> <<>>, result |-> "none"]
NoStdout == [pc |-> "idle", sys_stdout |-> 0, data_type |-> "", original_stdout |-> 0,
             captured_output |-> 0, calls |-> <<>>]
NoLog == [pc |-> <<"idle", "idle">>, builtins_print |-> 0, original_print |-> <<0, 0>>,
          handlers |-> {}, log_files |-> <<{}, {}>>, printed |-> <<0, 0>>]

AuxIdle ==
    /\ raw_job = NoRaw /\ tiled_job = NoTiled /\ tile_call = NoTile
    /\ stdout_state = NoStdout /\ log_state = NoLog

(***************************************************************************)
(* Job dispatch (src/app/dem_operations.py): names, records, idle state    *)
(***************************************************************************)
\* the fetch_dem_api calls of one run of OpsSpec, in the order they are made;
\* call j starts worker thread j
CallIds == {1, 2}

\* DEM_TYPES, lines 28-41: the configured DEM types with their display names
DEM_TYPES ==
    ("lidar_5m" :> [name |-> "5m LiDAR DEM", resolution |-> 5]) @@
    ("national_1s" :> [name |-> "1 Second National DEM", resolution |-> 30])

\* line 433: the extension follows the data type
file_extension(dt) == IF dt = "raw" THEN ".tif" ELSE ".png"

\* lines 436 and 444: the output file name; counter 0 is the name without a
\* suffix.  All requests of the model carry the same bbox, so bbox_str is the
\* same in every name and is left out.
OutputFile(dt, t, counter) ==
    [data_type |-> dt, dem_type |-> t, counter |-> counter, ext |-> file_extension(dt)]

\* the names fetch_dem_api can produce in the calls of CallIds; a status file
\* <stem>_status.json and its lock <stem>_status.json.lock belong to each
FileNames ==
    { OutputFile(dt, t, c) : dt \in {"rgb", "raw"}, t \in DOMAIN DEM_TYPES, c \in 0..(Cardinality(CallIds) - 1) }

\* contents of a status file: no file, a file cut off by open(..., 'w') that
\* json.load rejects, or a JSON record
Absent == [kind |-> "absent", status |-> "", display_name |-> <<>>, dataType |-> ""]
Torn == [kind |-> "torn", status |-> "", display_name |-> <<>>, dataType |-> ""]
Json(st, dn, dt) == [kind |-> "json", status |-> st, display_name |-> dn, dataType |-> dt]

\* a local of fetch_dem_thread that no assignment has bound yet
Unbound == "<unbound>"

NoCall == [at |-> "none", u |-> 0]
NoLocals ==
    [dem_name |-> "", dem_type |-> "", data_type |-> "", file |-> OutputFile("rgb", "lidar_5m", 0),
     display_name |-> <<Unbound>>, thread_data_type |-> Unbound,
     status_data |-> Absent, result |-> "none"]
NoResponse == [success |-> FALSE, status |-> "none", parse_error |-> FALSE]
NoPoll == [file |-> OutputFile("rgb", "lidar_5m", 0), status_data |-> Absent]

OpsIdle ==
    /\ api_calls = <<>>
    /\ dem_files = {}
    /\ status_files = [f \in FileNames |-> Absent]
    /\ lock = [f \in FileNames |-> 0]
    /\ wpc = [j \in CallIds |-> NoCall]
    /\ wlocal = [j \in CallIds |-> NoLocals]
    /\ ppc = "idle" /\ plocal = NoPoll
    /\ p_resp = NoResponse
    /\ w_timeouts = [j \in CallIds |-> 0]
    /\ handler_called = [j \in CallIds |-> "none"]
    /\ log_fault = [j \in CallIds |-> FALSE]
    /\ first_terminal = [f \in FileNames |-> "none"]

(***************************************************************************)
(* Inputs                                                                  *)
(***************************************************************************)
\* largest k for which required dimensions around k * max_request_size are drawn
MaxDimK == 3

\* required pixel dimensions around the multiples of max_request_size
DimSamples ==
    { d \in { k * max_request_size + o : k \in 0..MaxDimK, o \in {-1, 0, 1, 1999} } : d >= 0 }

\* bbox (152.0, -28.0, 153.5, -27.0), the default of DEMFetcher.__init__
ScenarioA == <<FromInt(152), FromInt(-28), FromDecimal(1535, 10), FromInt(-27)>>

\* bbox (152.95, -27.5, 153.05, -27.4), SMALL_BBOX_BRISBANE of the tests
ScenarioB == <<FromDecimal(15295, 100), FromDecimal(-275, 10),
               FromDecimal(15305, 100), FromDecimal(-274, 10)>>

\* square boxes of 1, 2 and 3 degrees at the origin
Square(n) == <<FromInt(0), FromInt(0), FromInt(n), FromInt(n)>>

BBoxSamples == {ScenarioA, ScenarioB} \cup { Square(n) : n \in 1..MaxGrid }

ResSamples == {5, 30}

\* coordinates (in degrees) from which FnSpec builds boxes for get_chunk_bbox
CoordSamples ==
    { FromDecimal(n, 100) : n \in {-2800, -2740, -100, -46, 0, 10, 33, 15295, 15305} }

GridBoxes ==
    { b \in CoordSamples \X CoordSamples \X CoordSamples \X CoordSamples :
        FLess(b[1], b[3]) /\ FLess(b[2], b[4]) /\ (b[2] = b[1]) /\ (b[4] = b[3]) }
    \cup
    { <<x[1], y[1], x[2], y[2]>> :
        x \in { p \in CoordSamples \X CoordSamples : FLess(p[1], p[2]) },
        y \in { <<FromInt(-28), FromInt(-27)>>, <<FromDecimal(-275, 10), FromDecimal(-274, 10)>> } }

(***************************************************************************)
(* FnSpec: the pure functions applied to drawn inputs                      *)
(***************************************************************************)
JobIdle ==
    /\ bbox = Square(1) /\ target_res = 30 /\ data_type = "rgb" /\ has_status_file = FALSE
    /\ self = [kind |-> "none"] /\ probe = "none"
    /\ pc = "idle" /\ result = "none" /\ statusLog = <<>>
    /\ row = 0 /\ col = 0 /\ current_chunk = 0 /\ failed_chunks = 0
    /\ chunk_files = <<>> /\ georef_chunk_files = <<>> /\ gi = 0
    /\ attempt = 0 /\ requests = 0 /\ waits = <<>> /\ chunk_ret = "none"
    /\ exportLog = <<>> /\ georefLog = <<>>
    /\ output_file = "absent" /\ verified = FALSE /\ merge_called = FALSE
    /\ envFault = FALSE

FnInit ==
    /\ JobIdle /\ OpsIdle /\ AuxIdle
    /\ fout = [kind |-> "none"]
    /\ \/ \E rw \in DimSamples, rh \in DimSamples :
              fin = [kind |-> "dims", rw |-> rw, rh |-> rh]
       \/ \E b \in BBoxSamples, r \in ResSamples :
              fin = [kind |-> "bbox", bbox |-> b, res |-> r]
       \/ \E b \in GridBoxes, rows \in 1..MaxGrid, cols \in 1..MaxGrid :
              fin = [kind |-> "grid", bbox |-> b, rows |-> rows, cols |-> cols]

\* __init__ lines 69-86 on given required dimensions
Plan(rw, rh) ==
    LET s == split_requests(rw, rh)
    IN  [kind |-> "plan", required_width |-> rw, required_height |-> rh, split_requests |-> s,
         chunk_width |-> chunk_dim(rw, s), chunk_height |-> chunk_dim(rh, s)]

\* __init__ lines 52-86 on a bbox and a target resolution
PlanBBox(b, res) == Plan(required_width(b, res), required_height(b, res))

ApplyPlanDims ==
    /\ fin.kind = "dims" /\ fout.kind = "none"
    /\ fout' = Plan(fin.rw, fin.rh)
    /\ UNCHANGED <<fin, jobVars, opsVars, auxVars>>

ApplyInit ==
    /\ fin.kind = "bbox" /\ fout.kind = "none"
    /\ fout' = PlanBBox(fin.bbox, fin.res)
    /\ UNCHANGED <<fin, jobVars, opsVars, auxVars>>

ApplyGrid ==
    /\ fin.kind = "grid" /\ fout.kind = "none"
    /\ fout' = [kind |-> "cells",
                cells |-> [ rc \in (0..(fin.rows - 1)) \X (0..(fin.cols - 1)) |->
                              get_chunk_bbox(fin.bbox, rc[1], rc[2], fin.rows, fin.cols) ]]
    /\ UNCHANGED <<fin, jobVars, opsVars, auxVars>>

FnNext == ApplyPlanDims \/ ApplyInit \/ ApplyGrid

FnSpec == FnInit /\ [][FnNext]_vars

(***************************************************************************)
(* Spec: one run of fetch_dem                                              *)
(***************************************************************************)
\* fetch_dem arguments: 30 m/px over squares of 1, 2 and 3 degrees, which
\* plan to 1x1, 2x2 and 3x3 grids
JobInputs == { <<Square(1), 30>>, <<Square(2), 30>>, <<Square(3), 30>> }

\* 'rgb' and 'raw' are the supported variants; any other string is accepted by fetch_dem
DataTypes == {"rgb", "raw", "other"}

\* the methods class DEMFetcher defines
DEMFetcherMethods ==
    {"__init__", "create_temp_dir", "get_chunk_bbox", "export_image_chunk",
     "add_georeference_to_chunk", "merge_geotiff_chunks", "verify_geotiff",
     "update_status", "download_high_res_dem"}

\* what one request of export_image_chunk can meet:
\*   ok          200, body at least min_expected_size bytes
\*   small_ok    200, small body without 'error', 'exception' or 'failed'
\*   small_error 200, small body containing one of those words
\*   non200      any other status code
\*   timeout     requests.exceptions.Timeout
\*   exception   any other exception (connection error, disk error while saving)
ServiceOutcomes == {"ok", "small_ok", "small_error", "non200", "timeout", "exception"}

\* progress values are fractions <<numerator, denominator>>
P(n) == <<n, 1>>

\* fields of the fetcher computed by __init__ from the arguments
self_split_requests == self.split_requests

self_chunk_width == self.chunk_width

self_chunk_height == self.chunk_height

total_chunks == self_split_requests * self_split_requests

\* update_status that drops 'processing' records
update_status_drop(log, status, progress) ==
    IF has_status_file /\ status # "processing"
    THEN Append(log, [status |-> status, progress |-> progress])
    ELSE log

\* update_status: hands the record to the status file when one is configured.
\* The log holds the records the run reported, in order; an I/O error while
\* writing is logged and swallowed by update_status (lines 438-439).
update_status(log, status, progress) ==
    IF has_status_file
    THEN Append(log, [status |-> status, progress |-> progress])
    ELSE log

Init ==
    /\ fin = [kind |-> "none"] /\ fout = [kind |-> "none"]
    /\ \E inp \in JobInputs :
          bbox = inp[1] /\ target_res = inp[2] /\ self = PlanBBox(inp[1], inp[2])
    /\ data_type \in DataTypes
    /\ has_status_file \in BOOLEAN
    /\ probe = "none"
    /\ pc = "fetch_dem" /\ result = "none" /\ statusLog = <<>>
    /\ row = 0 /\ col = 0 /\ current_chunk = 0 /\ failed_chunks = 0
    /\ chunk_files = <<>> /\ georef_chunk_files = <<>> /\ gi = 0
    /\ attempt = 0 /\ requests = 0 /\ waits = <<>> /\ chunk_ret = "none"
    /\ exportLog = <<>> /\ georefLog = <<>>
    /\ output_file = "absent" /\ verified = FALSE /\ merge_called = FALSE
    /\ envFault = FALSE
    /\ OpsIdle /\ AuxIdle

\* return v from fetch_dem
Return(v) == pc' = "done" /\ result' = (IF v THEN "True" ELSE "False")

\* an exception leaves fetch_dem
Raise == pc' = "done" /\ result' = "raised"

\* fetch_dem: build the fetcher and write the initial status
FetchDemStart ==
    /\ pc = "fetch_dem"
    /\ statusLog' = update_status(statusLog, "starting", P(0))
    /\ pc' = "create_temp_dir"
    /\ UNCHANGED <<auxVars, opsVars, fnVars, bbox, target_res, data_type, has_status_file, self, probe, result,
                   row, col, current_chunk, failed_chunks, chunk_files,
                   georef_chunk_files, gi, attempt, requests, waits, chunk_ret,
                   exportLog, georefLog, output_file, verified, merge_called, envFault>>

\* download_high_res_dem: self.create_temp_dir(), outside any try block
CreateTempDir ==
    /\ pc = "create_temp_dir"
    /\ \E io \in {"ok", "raises"} :
          IF io = "ok"
          THEN pc' = "probe" /\ UNCHANGED <<result, envFault>>
          ELSE Raise /\ envFault' = TRUE
    /\ UNCHANGED <<auxVars, opsVars, fnVars, bbox, target_res, data_type, has_status_file, self, probe, statusLog,
                   row, col, current_chunk, failed_chunks, chunk_files,
                   georef_chunk_files, gi, attempt, requests, waits, chunk_ret,
                   exportLog, georefLog, output_file, verified, merge_called>>

\* a probe that only treats an exception as unavailability
ProbeAvailable_anyResponse(r) == r # "raises"

\* the service counts as available when the info request answers 200 with a JSON body
ProbeAvailable(r) == r = "200"

\* the export_image_chunk call record
ExportCall(id, b) ==
    [id |-> id, bbox |-> b, width |-> self_chunk_width, height |-> self_chunk_height]

\* download_high_res_dem: availability probe, then the first status of either path
Probe ==
    /\ pc = "probe"
    /\ \E r \in {"200", "non200", "raises"} :
          /\ probe' = r
          /\ envFault' = (envFault \/ r # "200")
          /\ IF ~ProbeAvailable(r)
             THEN /\ statusLog' = update_status(statusLog, "failed", P(0))
                  /\ Return(FALSE)
                  /\ UNCHANGED <<exportLog, row, col, current_chunk, failed_chunks,
                                 chunk_files, georef_chunk_files>>
             ELSE IF self_split_requests = 1
             THEN /\ statusLog' = update_status(statusLog, "downloading", P(10))
                  /\ exportLog' = Append(exportLog, ExportCall("full", bbox))
                  /\ pc' = "export"
                  /\ UNCHANGED <<result, row, col, current_chunk, failed_chunks,
                                 chunk_files, georef_chunk_files>>
             ELSE /\ statusLog' = update_status(statusLog, "downloading", P(5))
                  /\ chunk_files' = <<>> /\ georef_chunk_files' = <<>>
                  /\ current_chunk' = 0 /\ failed_chunks' = 0
                  /\ row' = 0 /\ col' = 0
                  /\ pc' = "loop"
                  /\ UNCHANGED <<result, exportLog>>
    /\ attempt' = 0 /\ requests' = 0 /\ waits' = <<>> /\ chunk_ret' = "none"
    /\ UNCHANGED <<auxVars, opsVars, fnVars, bbox, target_res, data_type, has_status_file, self, gi,
                   georefLog, output_file, verified, merge_called>>

\* download progress running from 5 up to 100 over the chunks
DownloadProgress_to100(k, total) == <<5 * total + 95 * k, total>>

\* line 587: progress = 5 + (current_chunk / total_chunks) * 45
DownloadProgress(k, total) == <<5 * total + 45 * k, total>>

\* multi-chunk loop head: status for the next cell, then export_image_chunk
ChunkBegin ==
    /\ pc = "loop" /\ row < self_split_requests
    /\ current_chunk' = current_chunk + 1
    /\ LET chunk_bbox == get_chunk_bbox(bbox, row, col, self_split_requests, self_split_requests)
           progress == DownloadProgress(current_chunk + 1, total_chunks)
       IN  /\ statusLog' = update_status(statusLog, "downloading", progress)
           /\ exportLog' = Append(exportLog, ExportCall(<<row, col>>, chunk_bbox))
    /\ attempt' = 0 /\ requests' = 0 /\ waits' = <<>> /\ chunk_ret' = "none"
    /\ pc' = "export"
    /\ UNCHANGED <<auxVars, opsVars, fnVars, bbox, target_res, data_type, has_status_file, self, probe, result,
                   row, col, failed_chunks, chunk_files, georef_chunk_files, gi,
                   georefLog, output_file, verified, merge_called, envFault>>

\* export_image_chunk's loop body with 'attempt <= max_retries - 1' as retry test
ExportStep_offByOne(o, att) ==
    IF o \in {"ok", "small_ok"} THEN [ret |-> "path", wait |-> 0]
    ELSE IF att <= max_retries - 1
         THEN [ret |-> "retry",
               wait |-> IF o = "timeout" THEN Pow2(att + 1) ELSE Pow2(att)]
         ELSE [ret |-> "None", wait |-> 0]

\* export_image_chunk's loop body with the same backoff after every failure
ExportStep_sameBackoff(o, att) ==
    IF o \in {"ok", "small_ok"} THEN [ret |-> "path", wait |-> 0]
    ELSE IF att < max_retries - 1
         THEN [ret |-> "retry", wait |-> Pow2(att)]
         ELSE [ret |-> "None", wait |-> 0]

\* export_image_chunk, one pass of 'for attempt in range(self.max_retries)':
\* what the pass does on service outcome o at 0-based attempt att.
\*   ret  "path"  return output_file
\*        "retry" sleep wait seconds and go to the next attempt
\*        "None"  return None (directly, or by leaving the loop after the last attempt)
ExportStep(o, att) ==
    IF o \in {"ok", "small_ok"} THEN [ret |-> "path", wait |-> 0]
    ELSE IF att < max_retries - 1
         THEN [ret |-> "retry",
               wait |-> IF o = "timeout" THEN Pow2(att + 1) ELSE Pow2(att)]
         ELSE [ret |-> "None", wait |-> 0]

\* line 226: min_expected_size = 500 if self.data_type == 'rgb' else 1000
min_expected_size(dt) == IF dt = "rgb" THEN 500 ELSE 1000

\* line 231: content_preview = f.read(500)
preview_len == 500

\* What the service answers to one export request: the HTTP status (or the
\* exception requests.get raised), the size of the saved body and err_at, the
\* position in the body where the first of the words 'error', 'exception',
\* 'failed' ends (0: the body contains none of them).
ServiceResponses ==
    { [http |-> "200", size |-> 5000, err_at |-> 0],
      [http |-> "200", size |-> 300, err_at |-> 0],
      [http |-> "200", size |-> 300, err_at |-> 40],
      [http |-> "200", size |-> 800, err_at |-> 700],
      [http |-> "500", size |-> 0, err_at |-> 0],
      [http |-> "timeout", size |-> 0, err_at |-> 0],
      [http |-> "exception", size |-> 0, err_at |-> 0] }

\* lines 206-255 and 266-276: how export_image_chunk classifies a response
ResponseKind(dt, r) ==
    IF r.http = "200"
    THEN IF r.size < min_expected_size(dt)
         THEN (IF r.err_at >= 1 /\ r.err_at <= preview_len THEN "small_error" ELSE "small_ok")
         ELSE "ok"
    ELSE IF r.http \in {"timeout", "exception"} THEN r.http
    ELSE "non200"

\* one request of export_image_chunk and its handling
ExportAttempt ==
    /\ pc = "export"
    /\ \E r \in ServiceResponses :
          LET o == ResponseKind(data_type, r)
              st == ExportStep(o, attempt)
          IN  /\ requests' = requests + 1
              /\ waits' = Append(waits, [kind |-> o, attempt |-> attempt, wait |-> st.wait,
                                         body |-> r])
              /\ envFault' = (envFault \/ o \notin {"ok", "small_ok"})
              /\ IF st.ret = "retry"
                 THEN attempt' = attempt + 1 /\ UNCHANGED <<pc, chunk_ret>>
                 ELSE /\ chunk_ret' = st.ret
                      /\ pc' = IF self_split_requests = 1 THEN "single_got" ELSE "multi_got"
                      /\ UNCHANGED attempt
    /\ UNCHANGED <<auxVars, opsVars, fnVars, bbox, target_res, data_type, has_status_file, self, probe, result, statusLog,
                   row, col, current_chunk, failed_chunks, chunk_files, georef_chunk_files,
                   gi, exportLog, georefLog, output_file, verified, merge_called>>

\* the rgb branch that reports complete without a processing record
SaveRgb_noProcessing(log, src, o) ==
    IF o = "ok"
    THEN [log |-> update_status(log, "complete", P(100)), out |-> <<"copy", src>>, ret |-> TRUE]
    ELSE [log |-> update_status(log, "failed", P(90)),
          out |-> IF o = "copy_raises" THEN "absent" ELSE <<"copy", src>>, ret |-> FALSE]

\* the rgb branch (single chunk lines 493-510, first chunk lines 621-639):
\* copy chunk src to the output path; o says whether shutil.copy2 or the
\* following os.path.getsize raised
SaveRgb(log, src, o) ==
    LET l1 == update_status(log, "processing", P(80))
    IN  IF o = "ok"
        THEN [log |-> update_status(l1, "complete", P(100)), out |-> <<"copy", src>>, ret |-> TRUE]
        ELSE [log |-> update_status(l1, "failed", P(90)),
              out |-> IF o = "copy_raises" THEN "absent" ELSE <<"copy", src>>, ret |-> FALSE]

RgbOutcomes == {"ok", "copy_raises", "getsize_raises"}

\* the single chunk came back without the failed record being written
SingleDownloadFailed_silent(log) == log

\* single-chunk path, lines 559-564: the chunk download failed
SingleDownloadFailed(log) == update_status(log, "failed", P(20))

\* single-chunk path after export_image_chunk returned (lines 486-564)
SingleGot ==
    /\ pc = "single_got"
    /\ \/ /\ chunk_ret = "None"
          /\ statusLog' = SingleDownloadFailed(statusLog)
          /\ Return(FALSE)
          /\ UNCHANGED <<output_file, envFault>>
       \/ /\ chunk_ret = "path"
          /\ \/ \* os.path.getsize(chunk_file) raises, outside any try block
                /\ Raise /\ envFault' = TRUE
                /\ UNCHANGED <<statusLog, output_file>>
             \/ /\ data_type = "rgb"
                /\ \E o \in RgbOutcomes :
                      LET f == SaveRgb(statusLog, "full", o)
                      IN  /\ statusLog' = f.log /\ output_file' = f.out /\ Return(f.ret)
                          /\ envFault' = (envFault \/ o # "ok")
             \/ /\ data_type = "raw"
                /\ statusLog' = update_status(statusLog, "processing", P(50))
                /\ pc' = "single_georef"
                /\ UNCHANGED <<result, output_file, envFault>>
             \/ /\ data_type \notin {"rgb", "raw"}
                /\ statusLog' = update_status(statusLog, "failed", P(50))
                /\ Return(FALSE)
                /\ UNCHANGED <<output_file, envFault>>
    /\ attempt' = 0 /\ requests' = 0 /\ waits' = <<>>
    /\ UNCHANGED <<auxVars, opsVars, fnVars, bbox, target_res, data_type, has_status_file, self, probe,
                   row, col, current_chunk, failed_chunks, chunk_files, georef_chunk_files,
                   gi, chunk_ret, exportLog, georefLog, verified, merge_called>>

\* single-chunk raw path: add_georeference_to_chunk(chunk_file, self.bbox), lines 516-554
SingleGeoref ==
    /\ pc = "single_georef"
    /\ \E g \in {"ok", "None", "getsize_raises"} :
          /\ georefLog' = Append(georefLog, [file |-> "full", bbox |-> bbox,
                                             ret |-> IF g = "None" THEN "None" ELSE "ok"])
          /\ envFault' = (envFault \/ g # "ok")
          /\ CASE g = "ok" ->
                    /\ statusLog' = update_status(statusLog, "processing", P(80))
                    /\ pc' = "single_finalize" /\ UNCHANGED result
               [] g = "None" ->
                    /\ statusLog' = update_status(statusLog, "failed", P(60))
                    /\ Return(FALSE)
               [] g = "getsize_raises" ->
                    /\ Raise /\ UNCHANGED statusLog
    /\ UNCHANGED <<auxVars, opsVars, fnVars, bbox, target_res, data_type, has_status_file, self, probe,
                   row, col, current_chunk, failed_chunks, chunk_files, georef_chunk_files,
                   gi, attempt, requests, waits, chunk_ret, exportLog,
                   output_file, verified, merge_called>>

\* final gate that reports complete whatever verify_geotiff answered
VerifyGate_ignored(log, v) ==
    [log |-> update_status(log, "complete", P(100)), ret |-> TRUE]

\* the final gate (lines 533-544, 690-699): complete only if verify_geotiff returned True
VerifyGate(log, v) ==
    IF v
    THEN [log |-> update_status(log, "complete", P(100)), ret |-> TRUE]
    ELSE [log |-> update_status(log, "failed", P(95)), ret |-> FALSE]

\* the single raw path copying the downloaded chunk instead of its georeferenced copy
RawPromoteSource_chunk == "full"

\* line 528: shutil.copy2(georef_file, self.output_file)
RawPromoteSource == "full_georef"

\* single-chunk raw path: copy the georeferenced chunk and verify it, lines 526-549
SingleFinalize ==
    /\ pc = "single_finalize"
    /\ \E o \in {"ok", "missing", "copy_raises", "verify_fails", "getsize_raises"} :
          /\ envFault' = (envFault \/ o # "ok")
          /\ CASE o = "missing" ->
                    /\ statusLog' = update_status(statusLog, "failed", P(85))
                    /\ Return(FALSE)
                    /\ UNCHANGED <<output_file, verified>>
               [] o = "copy_raises" ->
                    /\ Raise /\ UNCHANGED <<statusLog, output_file, verified>>
               [] o = "getsize_raises" ->
                    \* verify_geotiff accepted the file, then os.path.getsize raised
                    /\ output_file' = <<"copy", RawPromoteSource>>
                    /\ verified' = TRUE
                    /\ statusLog' = update_status(statusLog, "processing", P(90))
                    /\ Raise
               [] o \in {"ok", "verify_fails"} ->
                    LET g == VerifyGate(update_status(statusLog, "processing", P(90)), o = "ok")
                    IN  /\ output_file' = <<"copy", RawPromoteSource>>
                        /\ verified' = (o = "ok")
                        /\ statusLog' = g.log
                        /\ Return(g.ret)
    /\ UNCHANGED <<auxVars, opsVars, fnVars, bbox, target_res, data_type, has_status_file, self, probe,
                   row, col, current_chunk, failed_chunks, chunk_files, georef_chunk_files,
                   gi, attempt, requests, waits, chunk_ret, exportLog, georefLog, merge_called>>

\* tolerance test that never aborts
TooManyFailed_never(failed, total) == FALSE

\* line 602: failed_chunks > total_chunks * 0.2
TooManyFailed(failed, total) == 10 * failed > 2 * total

\* multi-chunk loop body after export_image_chunk returned (lines 592-606)
MultiGot ==
    /\ pc = "multi_got"
    /\ LET last == (col = self_split_requests - 1)
           advance == /\ col' = (IF last THEN 0 ELSE col + 1)
                      /\ row' = (IF last THEN row + 1 ELSE row)
                      /\ pc' = "loop"
                      /\ UNCHANGED result
           progress == DownloadProgress(current_chunk, total_chunks)
       IN  \/ /\ chunk_ret = "path"
              /\ \/ /\ chunk_files' = Append(chunk_files, <<row, col>>)
                    /\ advance
                    /\ UNCHANGED <<envFault, statusLog, failed_chunks>>
                 \/ \* os.path.getsize(chunk_file) raises, outside any try block
                    /\ chunk_files' = Append(chunk_files, <<row, col>>)
                    /\ Raise /\ envFault' = TRUE
                    /\ UNCHANGED <<statusLog, failed_chunks, row, col>>
           \/ /\ chunk_ret = "None"
              /\ failed_chunks' = failed_chunks + 1
              /\ IF TooManyFailed(failed_chunks + 1, total_chunks)
                 THEN /\ statusLog' = update_status(statusLog, "failed", progress)
                      /\ Return(FALSE)
                      /\ UNCHANGED <<row, col>>
                 ELSE advance /\ UNCHANGED statusLog
              /\ UNCHANGED <<chunk_files, envFault>>
    /\ attempt' = 0 /\ requests' = 0 /\ waits' = <<>>
    /\ UNCHANGED <<auxVars, opsVars, fnVars, bbox, target_res, data_type, has_status_file, self, probe,
                   current_chunk, georef_chunk_files, gi, chunk_ret, exportLog, georefLog,
                   output_file, verified, merge_called>>

\* the multi-chunk rgb branch promoting the last downloaded chunk
RgbMultiSource_last(files) == files[Len(files)]

\* line 627: shutil.copy2(chunk_files[0], self.output_file)
RgbMultiSource(files) == files[1]

\* after the download loop (lines 608-644 and 705-708)
AfterLoop ==
    /\ pc = "loop" /\ row = self_split_requests
    /\ IF chunk_files = <<>>
       THEN /\ statusLog' = update_status(statusLog, "failed", P(50))
            /\ Return(FALSE)
            /\ UNCHANGED <<output_file, envFault, gi>>
       ELSE \/ /\ data_type = "rgb"
               /\ \E o \in RgbOutcomes :
                     LET f == SaveRgb(statusLog, RgbMultiSource(chunk_files), o)
                     IN  /\ statusLog' = f.log /\ output_file' = f.out /\ Return(f.ret)
                         /\ envFault' = (envFault \/ o # "ok")
               /\ UNCHANGED gi
            \/ /\ data_type = "raw"
               /\ statusLog' = update_status(statusLog, "processing", P(50))
               /\ gi' = 0
               /\ pc' = "georef"
               /\ UNCHANGED <<result, output_file, envFault>>
            \/ /\ data_type \notin {"rgb", "raw"}
               /\ statusLog' = update_status(statusLog, "failed", P(50))
               /\ Return(FALSE)
               /\ UNCHANGED <<output_file, envFault, gi>>
    /\ UNCHANGED <<auxVars, opsVars, fnVars, bbox, target_res, data_type, has_status_file, self, probe,
                   row, col, current_chunk, failed_chunks, chunk_files, georef_chunk_files,
                   attempt, requests, waits, chunk_ret, exportLog, georefLog,
                   verified, merge_called>>

\* line 647: the bbox used for the i-th (0-based) downloaded chunk
GeorefBBox(i) ==
    get_chunk_bbox(bbox, i \div self_split_requests, i % self_split_requests,
                   self_split_requests, self_split_requests)

\* the georeferencing loop keeping a chunk whatever add_georeference_to_chunk returned
GeorefKeep_all(files, f, g) == Append(files, f)

\* lines 650-652: only a chunk that add_georeference_to_chunk returned a file for is kept
GeorefKeep(files, f, g) == IF g = "ok" THEN Append(files, f) ELSE files

\* one pass of 'for i, chunk_file in enumerate(chunk_files)' (lines 646-655)
GeorefStep ==
    /\ pc = "georef" /\ gi < Len(chunk_files)
    /\ statusLog' = update_status(statusLog, "processing",
                        <<50 * Len(chunk_files) + 30 * (gi + 1), Len(chunk_files)>>)
    /\ \E g \in {"ok", "None"} :
          /\ georefLog' = Append(georefLog, [file |-> chunk_files[gi + 1], bbox |-> GeorefBBox(gi),
                                             ret |-> g])
          /\ envFault' = (envFault \/ g # "ok")
          /\ georef_chunk_files' = GeorefKeep(georef_chunk_files, chunk_files[gi + 1], g)
    /\ gi' = gi + 1
    /\ UNCHANGED <<auxVars, opsVars, fnVars, bbox, target_res, data_type, has_status_file, self, probe, pc, result,
                   row, col, current_chunk, failed_chunks, chunk_files,
                   attempt, requests, waits, chunk_ret, exportLog,
                   output_file, verified, merge_called>>

\* the merge call resolved to the method the class defines
MergeMethod_defined == "merge_geotiff_chunks"

\* line 672: the method download_high_res_dem calls to merge the chunks
MergeMethod == "merge_chunks"

\* after the georeferencing loop: merge, existence check, verification (lines 657-704)
MergeAndVerify ==
    /\ pc = "georef" /\ gi = Len(chunk_files)
    /\ IF georef_chunk_files = <<>>
       THEN /\ statusLog' = update_status(statusLog, "failed", P(80))
            /\ Return(FALSE)
            /\ UNCHANGED <<output_file, verified, merge_called, envFault>>
       ELSE LET l1 == update_status(statusLog, "processing", P(80))
            IN  IF MergeMethod \notin DEMFetcherMethods
                THEN \* AttributeError, caught by 'except Exception' at line 673
                     /\ statusLog' = update_status(l1, "failed", P(85))
                     /\ Return(FALSE)
                     /\ UNCHANGED <<output_file, verified, merge_called, envFault>>
                ELSE \E o \in {"ok", "merge_raises", "merge_false", "verify_fails"} :
                     /\ merge_called' = TRUE
                     /\ envFault' = (envFault \/ o # "ok")
                     /\ CASE o = "merge_raises" ->
                               /\ statusLog' = update_status(l1, "failed", P(85))
                               /\ Return(FALSE)
                               /\ UNCHANGED <<output_file, verified>>
                          [] o = "merge_false" ->
                               \* merge_geotiff_chunks caught its own error: no output file
                               /\ statusLog' = update_status(l1, "failed", P(88))
                               /\ Return(FALSE)
                               /\ UNCHANGED <<output_file, verified>>
                          [] o \in {"ok", "verify_fails"} ->
                               LET g == VerifyGate(update_status(l1, "processing", P(90)), o = "ok")
                               IN  /\ output_file' = <<"merged", georef_chunk_files>>
                                   /\ verified' = (o = "ok")
                                   /\ statusLog' = g.log
                                   /\ Return(g.ret)
    /\ UNCHANGED <<auxVars, opsVars, fnVars, bbox, target_res, data_type, has_status_file, self, probe,
                   row, col, current_chunk, failed_chunks, chunk_files, georef_chunk_files,
                   gi, attempt, requests, waits, chunk_ret, exportLog, georefLog>>

Next ==
    \/ FetchDemStart
    \/ CreateTempDir
    \/ Probe
    \/ ChunkBegin
    \/ ExportAttempt
    \/ SingleGot
    \/ SingleGeoref
    \/ SingleFinalize
    \/ MultiGot
    \/ AfterLoop
    \/ GeorefStep
    \/ MergeAndVerify

Spec == Init /\ [][Next]_vars

(***************************************************************************)
(* Status sequence and outcome of a run: C1 - C4                           *)
(***************************************************************************)
Statuses == [i \in 1..Len(statusLog) |-> statusLog[i].status]

RECURSIVE Collapse(_)
Collapse(s) ==
    IF Len(s) <= 1 THEN s
    ELSE IF s[1] = s[2] THEN Collapse(Tail(s))
    ELSE <<s[1]>> \o Collapse(Tail(s))

LastStatus == statusLog[Len(statusLog)].status

Returned == pc = "done" /\ result \in {"True", "False"}

\* C1: a run of fetch_dem with a status file that returns True wrote, with
\* consecutive repeats collapsed, exactly starting, downloading, processing,
\* complete.
C1_SuccessSequence ==
    (Returned /\ result = "True" /\ has_status_file) =>
        Collapse(Statuses) = <<"starting", "downloading", "processing", "complete">>

C1_Witness ==
    /\ Returned /\ result = "True" /\ has_status_file
    /\ self_split_requests > 1 /\ data_type = "rgb"

\* C2: a returning run with a status file ends in the terminal status that
\* matches its result: True only with the output file written and complete
\* as last record, False only with failed as last record, and no record
\* follows a terminal one.
C2_TerminalMatchesResult ==
    has_status_file =>
        /\ (Returned /\ result = "True") =>
               (output_file # "absent" /\ LastStatus = "complete")
        /\ (Returned /\ result = "False") => LastStatus = "failed"
        /\ \A i \in 1..(Len(statusLog) - 1) :
               statusLog[i].status \notin {"complete", "failed"}

C2_Witness ==
    /\ Returned /\ result = "True" /\ has_status_file /\ data_type = "raw"
    /\ output_file = <<"copy", "full_georef">> /\ LastStatus = "complete"

\* C3: a raw job with split_requests > 1 in which probe, downloads,
\* georeferencing, merge and verification all succeed passes through
\* processing, writes complete and returns True.
C3_RawMultiCompletes ==
    (pc = "done" /\ data_type = "raw" /\ self_split_requests > 1 /\ ~envFault) =>
        /\ result = "True"
        /\ has_status_file =>
               (LastStatus = "complete" /\ \E i \in 1..Len(statusLog) : Statuses[i] = "processing")

\* C4: when the availability probe answers non-200 or raises, the job fails
\* at once: no export_image_chunk call, no downloading or processing record,
\* a failed record with progress 0, and False is returned.
C4_ProbeFailureFailsFast ==
    probe \in {"non200", "raises"} =>
        /\ Returned /\ result = "False"
        /\ exportLog = <<>> /\ requests = 0
        /\ \A i \in 1..Len(statusLog) : Statuses[i] \notin {"downloading", "processing"}
        /\ has_status_file =>
               statusLog[Len(statusLog)] = [status |-> "failed", progress |-> P(0)]

C4_Witness ==
    /\ probe = "non200" /\ has_status_file /\ Returned
    /\ Statuses = <<"starting", "failed">>

(***************************************************************************)
(* Retry budget and backoff of export_image_chunk: C5, C6                  *)
(***************************************************************************)
ExportReturned == pc \in {"single_got", "multi_got"}

Failure(k) == k \notin {"ok", "small_ok"}

\* C5: whatever the service does, export_image_chunk sends at most
\* max_retries requests for a chunk, and when all of them fail it returns
\* None instead of raising.
C5_RetryBudget ==
    /\ requests <= max_retries
    /\ Len(waits) = requests
    /\ ExportReturned =>
           /\ result = "none"
           /\ chunk_ret \in {"path", "None"}
           /\ Failure(waits[Len(waits)].kind) =>
                  (chunk_ret = "None" /\ requests = max_retries)

C5_Witness ==
    /\ ExportReturned /\ chunk_ret = "None" /\ requests = max_retries
    /\ waits[1].kind = "non200" /\ waits[2].kind = "exception" /\ waits[3].kind = "small_error"

\* C6 as claimed: after a failed attempt k (0-based) that is not the last
\* one the wait is 2^k seconds for every kind of failure, and there is no
\* wait after the last attempt.
C6_BackoffIsTwoToAttempt ==
    \A i \in 1..Len(waits) :
        /\ waits[i].attempt = i - 1
        /\ Failure(waits[i].kind) =>
               waits[i].wait = (IF i - 1 < max_retries - 1 THEN Pow2(i - 1) ELSE 0)

\* C6 amended: the wait after failed attempt k is 2^k seconds for a non-200
\* response, an error body or an exception other than a timeout, and
\* 2^(k+1) seconds for a timeout; there is no wait after the last attempt,
\* so a service that always answers HTTP 500 costs waits of 1 s and 2 s.
C6_BackoffByKind ==
    /\ \A i \in 1..Len(waits) :
           /\ waits[i].attempt = i - 1
           /\ Failure(waits[i].kind) =>
                  waits[i].wait =
                      (IF i - 1 >= max_retries - 1 THEN 0
                       ELSE IF waits[i].kind = "timeout" THEN Pow2(i) ELSE Pow2(i - 1))
           /\ ~Failure(waits[i].kind) => waits[i].wait = 0
    /\ (ExportReturned /\ chunk_ret = "None"
            /\ \A i \in 1..Len(waits) : waits[i].kind = "non200") =>
           [i \in 1..Len(waits) |-> waits[i].wait] = <<1, 2, 0>>

C6_Witness ==
    /\ ExportReturned /\ chunk_ret = "None" /\ Len(waits) = max_retries
    /\ waits[1].kind = "non200" /\ waits[1].wait = 1
    /\ waits[2].kind = "timeout" /\ waits[2].wait = 4
    /\ waits[3].wait = 0

(***************************************************************************)
(* Request planning: C7, C8, C9                                            *)
(***************************************************************************)
\* C7: for all non-negative required dimensions, split_requests equals
\* max(1, ceil(max(required_width, required_height) / max_request_size)).
C7_SplitIsCeiling ==
    (fin.kind = "dims" /\ fout.kind = "plan") =>
        fout.split_requests = split_requests_ceil(fin.rw, fin.rh)

\* C8: the single-chunk path (split_requests = 1) is taken exactly when both
\* required dimensions are below max_request_size; scenario A at 5 m/px needs
\* tens of thousands of pixels per axis and splits, scenario B at 30 m/px stays
\* below max_request_size and does not split.
C8_PathSelection ==
    fout.kind = "plan" =>
        /\ (fout.split_requests = 1) <=>
               (fout.required_width < max_request_size
                    /\ fout.required_height < max_request_size)
        /\ fout.split_requests >= 1
        /\ (fin.kind = "bbox" /\ fin.bbox = ScenarioA /\ fin.res = 5) =>
               /\ fout.required_width \in 10000..99999
               /\ fout.required_height \in 10000..99999
               /\ fout.split_requests > 1
        /\ (fin.kind = "bbox" /\ fin.bbox = ScenarioB /\ fin.res = 30) =>
               /\ fout.required_width < max_request_size
               /\ fout.required_height < max_request_size
               /\ fout.split_requests = 1

C8_Witness ==
    /\ fin.kind = "bbox" /\ fin.bbox = ScenarioA /\ fin.res = 5
    /\ fout.kind = "plan" /\ fout.split_requests > 1

\* C9: the chunk_width and chunk_height requested from the service never
\* exceed max_request_size, with or without splitting.
C9_ChunkWithinMax ==
    fout.kind = "plan" =>
        /\ fout.chunk_width <= max_request_size
        /\ fout.chunk_height <= max_request_size

C9_Witness ==
    /\ fout.kind = "plan" /\ fout.split_requests > 1
    /\ fout.required_width > 2 * max_request_size
    /\ fout.chunk_width = max_request_size

(***************************************************************************)
(* Chunk grid geometry: C10                                                *)
(***************************************************************************)
Cell(r, c) == fout.cells[<<r, c>>]

\* edges shared by neighbouring cells coincide
InteriorEdgesMeet ==
    /\ \A r \in 0..(fin.rows - 1), c \in 0..(fin.cols - 2) :
           Cell(r, c)[3] = Cell(r, c + 1)[1]
    /\ \A r \in 0..(fin.rows - 2), c \in 0..(fin.cols - 1) :
           Cell(r, c)[4] = Cell(r + 1, c)[2]

\* the first row and column start on the bbox's min edges
MinEdgesOnBBox ==
    /\ \A r \in 0..(fin.rows - 1) : Cell(r, 0)[1] = fin.bbox[1]
    /\ \A c \in 0..(fin.cols - 1) : Cell(0, c)[2] = fin.bbox[2]

\* the last row and column end on the bbox's max edges
MaxEdgesOnBBox ==
    /\ \A r \in 0..(fin.rows - 1) : Cell(r, fin.cols - 1)[3] = fin.bbox[3]
    /\ \A c \in 0..(fin.cols - 1) : Cell(fin.rows - 1, c)[4] = fin.bbox[4]

\* |x - hi| <= 8 * 2^-MantBits * max(|lo|, |hi|)
WithinRounding(x, lo, hi) ==
    LET e == Min(x[2], Min(lo[2], hi[2]))
        X == x[1] * Pow2(x[2] - e)
        L == lo[1] * Pow2(lo[2] - e)
        H == hi[1] * Pow2(hi[2] - e)
    IN  Abs(X - H) * Pow2(MantBits - 3) <= Max(Abs(L), Abs(H))

MaxEdgesNearBBox ==
    /\ \A r \in 0..(fin.rows - 1) :
           WithinRounding(Cell(r, fin.cols - 1)[3], fin.bbox[1], fin.bbox[3])
    /\ \A c \in 0..(fin.cols - 1) :
           WithinRounding(Cell(fin.rows - 1, c)[4], fin.bbox[2], fin.bbox[4])

\* C10 as claimed: the cells tile the bbox exactly, shared edges coincide
\* and all four outer edges equal the bbox edges.
C10_TilesExactly ==
    fout.kind = "cells" => (InteriorEdgesMeet /\ MinEdgesOnBBox /\ MaxEdgesOnBBox)

\* C10 amended: shared edges coincide and the min edges equal the bbox's
\* exactly; the max edges of the last row and column equal the bbox's max
\* edges up to floating-point rounding.
C10_TilesUpToRounding ==
    fout.kind = "cells" => (InteriorEdgesMeet /\ MinEdgesOnBBox /\ MaxEdgesNearBBox)

C10_Witness ==
    /\ fout.kind = "cells" /\ fin.rows > 1 /\ fin.cols > 1
    /\ Cell(0, fin.cols - 1)[3] # fin.bbox[3]

(***************************************************************************)
(* Single-chunk shortcut, tolerance policy, final gate, error containment: *)
(* C11 - C14                                                               *)
(***************************************************************************)
\* C11: with split_requests = 1 there is exactly one export_image_chunk call,
\* for the whole bbox, the merge step never runs, and a successful run
\* promotes that chunk to the output path: its georeferenced copy for raw,
\* the downloaded image itself for rgb.
C11_SingleChunkShortcut ==
    (pc # "idle" /\ self_split_requests = 1) =>
        /\ Len(exportLog) <= 1
        /\ \A i \in 1..Len(exportLog) :
               exportLog[i].id = "full" /\ exportLog[i].bbox = bbox
        /\ pc \notin {"fetch_dem", "create_temp_dir", "probe"} /\ probe = "200"
               => Len(exportLog) = 1
        /\ ~merge_called
        /\ pc \notin {"loop", "multi_got", "georef"}
        /\ (Returned /\ result = "True") =>
               output_file = (IF data_type = "raw" THEN <<"copy", "full_georef">>
                              ELSE <<"copy", "full">>)

C11_Witness ==
    /\ self_split_requests = 1 /\ Returned /\ result = "True" /\ data_type = "raw"
    /\ Len(exportLog) = 1 /\ georefLog = <<[file |-> "full", bbox |-> bbox, ret |-> "ok"]>>

\* C12: in the multi-chunk path the job is aborted with status failed as
\* soon as the chunks that failed all retries exceed 20% of total_chunks, no
\* chunk is requested after the abort, a job whose failures stay within 20%
\* goes on to processing, and in a 2x2 grid one failed chunk fails the job.
C12_TwentyPercentPolicy ==
    (pc # "idle" /\ self_split_requests > 1) =>
        /\ Len(exportLog) = current_chunk
        /\ (pc # "multi_got" /\ 10 * failed_chunks > 2 * total_chunks) =>
               /\ Returned /\ result = "False"
               /\ 10 * (failed_chunks - 1) <= 2 * total_chunks
               /\ has_status_file => LastStatus = "failed"
        /\ (row = self_split_requests /\ pc # "loop" /\ data_type \in {"rgb", "raw"}) =>
               /\ 10 * failed_chunks <= 2 * total_chunks
               /\ has_status_file => \E i \in 1..Len(statusLog) : Statuses[i] = "processing"
        /\ (self_split_requests = 2 /\ failed_chunks >= 1 /\ pc # "multi_got") =>
               (Returned /\ result = "False")

C12_Witness ==
    /\ self_split_requests = 3 /\ failed_chunks = 1 /\ pc = "georef"
    /\ has_status_file /\ LastStatus = "processing"

\* C13: status complete is written only after verify_geotiff returned True
\* on the finished output file, for raw and rgb, single- and multi-chunk.
C13_CompleteOnlyVerified ==
    \A i \in 1..Len(statusLog) : statusLog[i].status = "complete" => verified

\* C14: no error leaves fetch_dem as an exception; every failing step ends
\* in a failed status record and the return value False.
C14_NothingEscapes ==
    pc = "done" =>
        /\ result \in {"True", "False"}
        /\ (envFault /\ has_status_file /\ result = "False") => LastStatus = "failed"

(***************************************************************************)
(* OpsSpec: fetch_dem_api, fetch_dem_thread, check_dem_status              *)
(***************************************************************************)
\* requests handed to fetch_dem_api: two valid ones, one with an invalid
\* dataType, one with an unknown dem_type
ApiRequests ==
    { [dem_type |-> "lidar_5m", dem_name |-> "Site", dataType |-> "rgb"],
      [dem_type |-> "lidar_5m", dem_name |-> "", dataType |-> "raw"],
      [dem_type |-> "lidar_5m", dem_name |-> "Site", dataType |-> "other"],
      [dem_type |-> "bogus", dem_name |-> "", dataType |-> "rgb"] }

\* lines 457-461: the display name stored at dispatch
DispatchDisplayName(dem_name, dem_type) ==
    IF dem_name # "" THEN <<dem_name, " (", DEM_TYPES[dem_type].name, ")">>
    ELSE <<DEM_TYPES[dem_type].name>>

\* lines 530, 542, 768: dem_name or dem_type
FallbackDisplayName(dem_name, dem_type) ==
    IF dem_name # "" THEN <<dem_name>> ELSE <<dem_type>>

\* lines 441 and 446: os.path.exists(output_path)
NameTaken(f) == f \in dem_files

\* lines 438-448: the first counter whose output file does not exist yet
FreeCounter(dt, t) ==
    CHOOSE c \in 0..Cardinality(CallIds) :
        /\ ~NameTaken(OutputFile(dt, t, c)) \/ c = Cardinality(CallIds)
        /\ \A d \in 0..(c - 1) : NameTaken(OutputFile(dt, t, d))

\* success class {complete, completed}, failure class {error}, else open
StatusClass(st) ==
    IF st \in {"complete", "completed"} THEN "success"
    ELSE IF st = "error" THEN "failure" ELSE "open"

\* history: the class of the first terminal status stored in the file of f
NoteTerminal(f, st) ==
    IF first_terminal[f] = "none" /\ StatusClass(st) # "open"
    THEN [first_terminal EXCEPT ![f] = StatusClass(st)]
    ELSE first_terminal

\* fetch_dem_api, lines 397-494; the worker thread starts at its first lock
fetch_dem_api(req) ==
    /\ Len(api_calls) < Cardinality(CallIds)
    /\ LET j == Len(api_calls) + 1
           dt == req.dataType
           t == req.dem_type
       IN  IF dt \notin {"rgb", "raw"} \/ t \notin DOMAIN DEM_TYPES
           THEN /\ api_calls' = Append(api_calls, [req |-> req, success |-> FALSE, filename |-> <<>>])
                /\ UNCHANGED <<status_files, wpc, wlocal>>
           ELSE LET f == OutputFile(dt, t, FreeCounter(dt, t))
                    dn == DispatchDisplayName(req.dem_name, t)
                IN  /\ api_calls' = Append(api_calls, [req |-> req, success |-> TRUE, filename |-> <<f>>])
                    /\ status_files' = [status_files EXCEPT ![f] = Json("starting", dn, dt)]
                    /\ wpc' = [wpc EXCEPT ![j] = [at |-> "lock", u |-> 1]]
                    /\ wlocal' = [wlocal EXCEPT ![j] =
                           [NoLocals EXCEPT !.dem_name = req.dem_name, !.dem_type = t,
                                            !.data_type = dt, !.file = f]]
    /\ UNCHANGED <<auxVars, fnVars, jobVars, dem_files, lock, ppc, plocal, p_resp,
                   w_timeouts, handler_called, log_fault, first_terminal>>

\* Status updates of fetch_dem_thread, each inside "with lock":
\*   1  lines 516-546  read display_name and dataType
\*   2  lines 551-562  write 'downloading' (Starting DEM download...)
\*   3  lines 622-652  read, then write 'downloading' (Fetching DEM data...)
\*   4  lines 678-747  read, then write 'complete' or 'error'
\*   5  lines 760-775  write 'error' from the outer exception handler
\* where the worker goes when update u is over or its lock timed out
AfterUpdate(u, timed_out) ==
    IF u = 1 THEN (IF timed_out THEN [at |-> "log", u |-> 0] ELSE [at |-> "lock", u |-> 2])
    ELSE IF u = 2 THEN [at |-> "log", u |-> 0]
    ELSE IF u = 3 THEN [at |-> "handler", u |-> 0]
    ELSE [at |-> "done", u |-> 0]

\* filelock.Timeout: the lock file stayed with another holder (a worker of
\* the same status file or another process) for the 10 seconds of the
\* timeout; except clauses at lines 563, 651, 706, 746, 774
WTimeout(j) ==
    /\ wpc[j].at = "lock"
    /\ w_timeouts' = [w_timeouts EXCEPT ![j] = IF @ = 0 THEN wpc[j].u ELSE @]
    /\ wpc' = [wpc EXCEPT ![j] = AfterUpdate(wpc[j].u, TRUE)]
    /\ UNCHANGED <<auxVars, fnVars, jobVars, api_calls, dem_files, status_files, lock, wlocal, ppc,
                   plocal, p_resp, handler_called, log_fault, first_terminal>>

\* "with lock" entered and json.load(status_file) done under the lock,
\* lines 516-546, 623-626, 679-682, 716-719
WRead(j) ==
    /\ wpc[j].at = "lock" /\ wpc[j].u \in {1, 3, 4}
    /\ lock[wlocal[j].file] = 0
    /\ LET f == wlocal[j].file
           c == status_files[f]
           l == wlocal[j]
       IN  IF wpc[j].u = 1
           THEN /\ wlocal' = [wlocal EXCEPT ![j] =
                       IF c.kind = "json"
                       THEN [l EXCEPT !.display_name = c.display_name,
                                      !.thread_data_type = c.dataType]
                       ELSE [l EXCEPT !.display_name = FallbackDisplayName(l.dem_name, l.dem_type),
                                      !.thread_data_type = l.data_type]]
                /\ wpc' = [wpc EXCEPT ![j] = AfterUpdate(1, FALSE)]
                /\ UNCHANGED lock
           ELSE IF c.kind = "absent"
           THEN \* open(status_file, 'r') raises, "except Exception" only logs
                /\ wpc' = [wpc EXCEPT ![j] = AfterUpdate(wpc[j].u, FALSE)]
                /\ UNCHANGED <<wlocal, lock>>
           ELSE /\ wlocal' = [wlocal EXCEPT ![j].status_data = c]
                /\ wpc' = [wpc EXCEPT ![j] = [at |-> "open_w", u |-> wpc[j].u]]
                /\ lock' = [lock EXCEPT ![f] = j]
    /\ UNCHANGED <<auxVars, fnVars, jobVars, api_calls, dem_files, status_files, ppc, plocal, p_resp,
                   w_timeouts, handler_called, log_fault, first_terminal>>

\* open(status_file, 'w') cuts the file off before json.dump fills it; in
\* updates 2 and 5 this is the first step inside "with lock"
WTruncate(j) ==
    /\ \/ wpc[j].at = "lock" /\ wpc[j].u \in {2, 5} /\ lock[wlocal[j].file] = 0
       \/ wpc[j].at = "open_w"
    /\ status_files' = [status_files EXCEPT ![wlocal[j].file] = Torn]
    /\ lock' = [lock EXCEPT ![wlocal[j].file] = j]
    /\ wpc' = [wpc EXCEPT ![j] = [at |-> "dump", u |-> wpc[j].u]]
    /\ UNCHANGED <<auxVars, fnVars, jobVars, api_calls, dem_files, wlocal, ppc, plocal, p_resp,
                   w_timeouts, handler_called, log_fault, first_terminal>>

\* the record json.dump writes in update u, lines 554-560, 629-648, 684-703,
\* 721-743, 764-771
WorkerRecord(l, u) ==
    IF u \in {2, 3} THEN Json("downloading", l.display_name, l.thread_data_type)
    ELSE IF u = 4 /\ l.result = "success"
         THEN (IF l.status_data.kind = "json" THEN [l.status_data EXCEPT !.status = "complete"]
               ELSE Json("complete", l.display_name, l.thread_data_type))
    ELSE IF u = 4 THEN Json("error", l.display_name, l.thread_data_type)
    ELSE Json("error", FallbackDisplayName(l.dem_name, l.dem_type), l.data_type)

\* json.dump and the end of "with lock"
WWrite(j) ==
    /\ wpc[j].at = "dump"
    /\ LET f == wlocal[j].file
           rec == WorkerRecord(wlocal[j], wpc[j].u)
       IN  /\ status_files' = [status_files EXCEPT ![f] = rec]
           /\ first_terminal' = NoteTerminal(f, rec.status)
           /\ lock' = [lock EXCEPT ![f] = 0]
    /\ wpc' = [wpc EXCEPT ![j] = AfterUpdate(wpc[j].u, FALSE)]
    /\ wlocal' = [wlocal EXCEPT ![j].status_data = Absent]
    /\ UNCHANGED <<auxVars, fnVars, jobVars, api_calls, dem_files, ppc, plocal, p_resp,
                   w_timeouts, handler_called, log_fault>>

\* lines 567-575: logging.FileHandler may fail to open the log file; the
\* f-string at line 574 reads thread_data_type, which is unbound when the
\* lock of update 1 timed out
LogRaises(l, fault) == fault \/ l.thread_data_type = Unbound

\* lines 566-620, and the way into the outer exception handler, lines 748-759
WLog(j) ==
    /\ wpc[j].at = "log"
    /\ \E fault \in BOOLEAN :
          /\ log_fault' = [log_fault EXCEPT ![j] = fault]
          /\ wpc' = [wpc EXCEPT ![j] = IF LogRaises(wlocal[j], fault)
                                       THEN [at |-> "lock", u |-> 5]
                                       ELSE [at |-> "lock", u |-> 3]]
    /\ UNCHANGED <<auxVars, fnVars, jobVars, api_calls, dem_files, status_files, lock, wlocal, ppc,
                   plocal, p_resp, w_timeouts, handler_called, first_terminal>>

\* lines 655-658: the handler is chosen by thread_data_type and invoked
HandlerStart(j) ==
    /\ wpc[j].at = "handler"
    /\ handler_called' = [handler_called EXCEPT ![j] =
           IF wlocal[j].thread_data_type = "raw" THEN "fetch_geotiff_dem" ELSE "fetch_rgb_dem"]
    /\ wpc' = [wpc EXCEPT ![j] = [at |-> "handler_run", u |-> 0]]
    /\ UNCHANGED <<auxVars, fnVars, jobVars, api_calls, dem_files, status_files, lock, wlocal, ppc,
                   plocal, p_resp, w_timeouts, log_fault, first_terminal>>

\* the handler writes the output file into DEM_DIR
\* (wcs_geotiff_handler.py line 193, wms_rgb_handler.py line 378)
HandlerSave(j) ==
    /\ wpc[j].at = "handler_run"
    /\ dem_files' = dem_files \cup {wlocal[j].file}
    /\ wpc' = [wpc EXCEPT ![j] = [at |-> "handler_saved", u |-> 0]]
    /\ UNCHANGED <<auxVars, fnVars, jobVars, api_calls, status_files, lock, wlocal, ppc, plocal, p_resp,
                   w_timeouts, handler_called, log_fault, first_terminal>>

\* the handler returns its result dict: success only after the file was
\* written, failure before or after (a step after the save raised)
HandlerReturn(j) ==
    /\ wpc[j].at \in {"handler_run", "handler_saved"}
    /\ \E ok \in BOOLEAN :
          /\ ok => wpc[j].at = "handler_saved"
          /\ wlocal' = [wlocal EXCEPT ![j].result = IF ok THEN "success" ELSE "failure"]
    /\ wpc' = [wpc EXCEPT ![j] = [at |-> "lock", u |-> 4]]
    /\ UNCHANGED <<auxVars, fnVars, jobVars, api_calls, dem_files, status_files, lock, ppc, plocal,
                   p_resp, w_timeouts, handler_called, log_fault, first_terminal>>

\* lines 327-333: status_mapping.get(status, 'unknown')
status_mapping(st) ==
    IF st \in {"starting", "downloading"} THEN st
    ELSE IF st \in {"completed", "complete"} THEN "complete"
    ELSE IF st = "error" THEN "failed"
    ELSE "unknown"

\* lines 270-275: json.load raised, the response is success False
ParseFailureResponse(f) ==
    [success |-> FALSE, status |-> "", parse_error |-> TRUE]

\* the files check_dem_status is asked about: those of dispatched jobs and
\* one name that may not exist
PollNames == { f \in FileNames : status_files[f].kind # "absent" \/ f = OutputFile("rgb", "lidar_5m", 0) }

\* check_dem_status, lines 225-345, up to its write of the status file
PollRead(f) ==
    /\ ppc = "idle" /\ f \in PollNames
    /\ LET c == status_files[f]
       IN  IF c.kind = "absent"
           THEN /\ p_resp' = IF f \in dem_files
                             THEN [success |-> TRUE, status |-> status_mapping("completed"),
                                   parse_error |-> FALSE]
                             ELSE [success |-> FALSE, status |-> "", parse_error |-> FALSE]
                /\ UNCHANGED <<ppc, plocal>>
           ELSE IF c.kind = "torn"
           THEN /\ p_resp' = ParseFailureResponse(f)
                /\ UNCHANGED <<ppc, plocal>>
           ELSE IF f \in dem_files /\ c.status \notin {"completed", "complete"}
           THEN /\ plocal' = [file |-> f, status_data |-> [c EXCEPT !.status = "completed"]]
                /\ ppc' = "trunc"
                /\ UNCHANGED p_resp
           ELSE /\ p_resp' = [success |-> TRUE, status |-> status_mapping(c.status),
                              parse_error |-> FALSE]
                /\ UNCHANGED <<ppc, plocal>>
    /\ UNCHANGED <<auxVars, fnVars, jobVars, api_calls, dem_files, status_files, lock, wpc, wlocal,
                   w_timeouts, handler_called, log_fault, first_terminal>>

\* line 268: open(status_file, 'w') in check_dem_status
PollTruncate ==
    /\ ppc = "trunc"
    /\ status_files' = [status_files EXCEPT ![plocal.file] = Torn]
    /\ ppc' = "write"
    /\ UNCHANGED <<auxVars, fnVars, jobVars, api_calls, dem_files, lock, wpc, wlocal, plocal, p_resp,
                   w_timeouts, handler_called, log_fault, first_terminal>>

\* line 269: json.dump, then the response, lines 303-345
PollWrite ==
    /\ ppc = "write"
    /\ status_files' = [status_files EXCEPT ![plocal.file] = plocal.status_data]
    /\ first_terminal' = NoteTerminal(plocal.file, plocal.status_data.status)
    /\ p_resp' = [success |-> TRUE, status |-> status_mapping(plocal.status_data.status),
                  parse_error |-> FALSE]
    /\ ppc' = "idle" /\ plocal' = NoPoll
    /\ UNCHANGED <<auxVars, fnVars, jobVars, api_calls, dem_files, lock, wpc, wlocal,
                   w_timeouts, handler_called, log_fault>>

OpsInit ==
    /\ fin = [kind |-> "none"] /\ fout = [kind |-> "none"]
    /\ JobIdle /\ OpsIdle /\ AuxIdle

OpsNext ==
    \/ \E req \in ApiRequests : fetch_dem_api(req)
    \/ \E j \in CallIds : WTimeout(j)
    \/ \E j \in CallIds : WRead(j)
    \/ \E j \in CallIds : WTruncate(j)
    \/ \E j \in CallIds : WWrite(j)
    \/ \E j \in CallIds : WLog(j)
    \/ \E j \in CallIds : HandlerStart(j)
    \/ \E j \in CallIds : HandlerSave(j)
    \/ \E j \in CallIds : HandlerReturn(j)
    \/ \E f \in FileNames : PollRead(f)
    \/ PollTruncate
    \/ PollWrite

OpsSpec == OpsInit /\ [][OpsNext]_vars

(***************************************************************************)
(* Status file discipline and dispatch: C15 - C20                          *)
(***************************************************************************)
\* call j was accepted by fetch_dem_api and started a worker
Dispatched(j) == j <= Len(api_calls) /\ api_calls[j].success

\* no other accepted call was given the output file (and so the status
\* file) of call j
SoleJob(j) ==
    \A i \in CallIds : (i # j /\ Dispatched(i)) => api_calls[i].filename # api_calls[j].filename

\* C15: the display_name and dataType that fetch_dem_api stored in the
\* status file are the ones every later record of that file carries.
C15_DispatchFieldsSurvive ==
    \A j \in CallIds :
        (Dispatched(j) /\ SoleJob(j)) =>
            LET c == status_files[wlocal[j].file]
                req == api_calls[j].req
            IN  c.kind = "json" =>
                    /\ c.display_name = DispatchDisplayName(req.dem_name, req.dem_type)
                    /\ c.dataType = req.dataType

\* the lock value a check_dem_status call would leave if it took the lock
Poller == -1

\* C16: whoever is writing a status file (worker or poller) holds that
\* file's lock, and a poller's read-modify-write never overlaps a worker's.
C16_WritesUnderLock ==
    /\ \A j \in CallIds :
           wpc[j].at \in {"open_w", "dump"} => lock[wlocal[j].file] = j
    /\ ppc \in {"trunc", "write"} => lock[plocal.file] = Poller
    /\ \A j \in CallIds :
           ~ (/\ ppc \in {"trunc", "write"} /\ wpc[j].at \in {"open_w", "dump"}
              /\ wlocal[j].file = plocal.file)

\* C17: with one worker on a status file, a terminal status (success:
\* complete/completed, failure: error) never gives way to a status of
\* another class, and no success status is in the file before the worker's
\* handler has returned.
C17_TerminalIsFinal ==
    \A j \in CallIds :
        (Dispatched(j) /\ SoleJob(j)) =>
            LET f == wlocal[j].file
                c == status_files[f]
            IN  c.kind = "json" =>
                    /\ first_terminal[f] # "none" => StatusClass(c.status) = first_terminal[f]
                    /\ StatusClass(c.status) = "success" => wlocal[j].result # "none"

\* C18: a worker whose lock acquisition timed out at some status update
\* (the first included) still invokes the DEM handler chosen by the data
\* type, unless opening its log file failed.
C18_TimeoutOnlyDropsUpdate ==
    \A j \in CallIds :
        (w_timeouts[j] # 0 /\ wpc[j].at = "done" /\ ~log_fault[j]) =>
            handler_called[j] =
                (IF wlocal[j].data_type = "raw" THEN "fetch_geotiff_dem" ELSE "fetch_rgb_dem")

\* C19: when the status file exists but does not parse, check_dem_status
\* answers success with status 'unknown'.
C19_ParseFailureUnknown ==
    p_resp.parse_error => (p_resp.success /\ p_resp.status = "unknown")

\* C20: two accepted fetch_dem_api calls with the same dem_type, dataType
\* and bbox return different file names.
C20_DistinctFilenames ==
    \A i, j \in CallIds :
        (/\ i # j /\ Dispatched(i) /\ Dispatched(j)
         /\ api_calls[i].req.dem_type = api_calls[j].req.dem_type
         /\ api_calls[i].req.dataType = api_calls[j].req.dataType) =>
            api_calls[i].filename # api_calls[j].filename

(***************************************************************************)
(* Progress, chunk bookkeeping and response screening in dem_fetcher.py:   *)
(* C23, C24, C25, C27, C28                                                 *)
(***************************************************************************)
\* a <= b for progress values kept as fractions <<numerator, denominator>>
FracLeq(a, b) == a[1] * b[2] <= b[1] * a[2]

\* C23: the progress values of successive update_status calls of one run
\* never decrease and stay within 0..100, the final failed record included.
C23_ProgressMonotone ==
    \A i \in 1..Len(statusLog) :
        /\ FracLeq(P(0), statusLog[i].progress)
        /\ FracLeq(statusLog[i].progress, P(100))
        /\ i > 1 => FracLeq(statusLog[i - 1].progress, statusLog[i].progress)

C23_Witness ==
    /\ Returned /\ result = "False" /\ self_split_requests = 3 /\ failed_chunks = 1
    /\ Len(statusLog) > 10
    /\ statusLog[Len(statusLog)] = [status |-> "failed", progress |-> P(85)]

\* C24: with data_type rgb and split_requests > 1 the output file is a copy
\* of chunk_files[0], the first chunk that was downloaded, and of nothing
\* else, and the job ends with status complete.
C24_RgbKeepsFirstChunk ==
    (pc # "idle" /\ self_split_requests > 1 /\ data_type = "rgb") =>
        /\ output_file # "absent" => (chunk_files # <<>> /\ output_file = <<"copy", chunk_files[1]>>)
        /\ (Returned /\ result = "True") =>
               /\ output_file # "absent"
               /\ has_status_file => LastStatus = "complete"
        /\ (pc = "done" /\ output_file # "absent" /\ ~envFault) => (Returned /\ result = "True")

C24_Witness ==
    /\ self_split_requests = 3 /\ data_type = "rgb" /\ Returned /\ result = "True"
    /\ Len(chunk_files) = 8 /\ chunk_files[1] = <<0, 1>>
    /\ has_status_file /\ LastStatus = "complete"

\* the files of the georeferencing calls that returned a file, in call order
Georeferenced ==
    LET kept == SelectSeq(georefLog, LAMBDA e : e.ret = "ok")
    IN  [i \in 1..Len(kept) |-> kept[i].file]

\* C25: in the multi-chunk raw path the list for the merge step holds exactly
\* the chunks whose georeferencing returned a file; a chunk whose
\* georeferencing failed does not fail the job, which fails at the
\* georeferencing stage (failed, 80) only when no chunk was georeferenced.
C25_GeorefFailuresDropped ==
    (pc # "idle" /\ self_split_requests > 1 /\ data_type = "raw" /\ georefLog # <<>>) =>
        /\ georef_chunk_files = Georeferenced
        /\ pc = "georef" \/ gi = Len(chunk_files)
        /\ (Returned /\ has_status_file) =>
               /\ result = "False"
               /\ (georef_chunk_files = <<>>) <=>
                      (statusLog[Len(statusLog)] = [status |-> "failed", progress |-> P(80)])

C25_Witness ==
    /\ self_split_requests = 2 /\ data_type = "raw" /\ Returned /\ has_status_file
    /\ Len(georefLog) = 4 /\ georefLog[2].ret = "None" /\ Len(georef_chunk_files) = 3
    /\ statusLog[Len(statusLog)] = [status |-> "failed", progress |-> P(85)]

\* C27: in the multi-chunk raw path every chunk is georeferenced with the
\* bbox it was requested with from the service.
C27_GeorefUsesRequestBBox ==
    (pc # "idle" /\ self_split_requests > 1) =>
        \A k \in 1..Len(georefLog) :
            \E n \in 1..Len(exportLog) :
                exportLog[n].id = georefLog[k].file /\ exportLog[n].bbox = georefLog[k].bbox

\* C28: export_image_chunk returns no chunk path for a 200 response whose
\* body is smaller than min_expected_size and contains 'error', 'exception'
\* or 'failed'.
C28_ErrorBodyNeverReturned ==
    (ExportReturned /\ chunk_ret = "path") =>
        LET b == waits[Len(waits)].body
        IN  ~ (b.http = "200" /\ b.size < min_expected_size(data_type) /\ b.err_at >= 1)

(***************************************************************************)
(* RawSpec: dem_fetcher_raw.DEMFetcher.download_high_res_dem               *)
(*                                                                         *)
(* raw_job.attempted is the set of grid cells export_image_chunk was       *)
(* called for, raw_job.merge_calls the argument and the cells attempted so *)
(* far of every merge_geotiff_chunks call, raw_job.statusLog every         *)
(* update_status call.  The block that merges and verifies is part of the  *)
(* body of the loop over rows: it runs each time the loop over the columns *)
(* of a row has ended.                                                     *)
(***************************************************************************)
\* values of self.split_requests (rows = cols = split_requests)
RawGrids == {1, 2, 3}

RawCells(n) == (0..(n - 1)) \X (0..(n - 1))

RawStatus(j, status, progress) ==
    Append(j.statusLog, [status |-> status, progress |-> progress])

\* the statements after the last chunk of the function: the for loops fell through
RawFailed(j) ==
    [j EXCEPT !.pc = "done", !.result = "False",
              !.statusLog = RawStatus(j, "failed", P(0))]

\* the end of one iteration of the loop over rows, after the merge block
RawNextRow(j) ==
    IF j.row + 1 < j.n
    THEN [j EXCEPT !.pc = "export", !.row = j.row + 1, !.col = 0]
    ELSE RawFailed(j)

\* the end of one iteration of the loop over columns; after the last column
\* of the row the merge block of the row starts
RawNextCol(j) ==
    IF j.col + 1 < j.n
    THEN [j EXCEPT !.pc = "export", !.col = j.col + 1]
    ELSE IF Len(j.georef_chunk_files) > 0
         THEN [j EXCEPT !.pc = "merge", !.statusLog = RawStatus(j, "processing", P(75))]
         ELSE RawNextRow(j)

\* entry: the output file may exist already
RawEnter ==
    /\ raw_job.pc = "start"
    /\ raw_job' =
         IF raw_job.output_file = "present"
         THEN [raw_job EXCEPT !.pc = "done", !.result = "True"]
         ELSE [raw_job EXCEPT !.pc = "export",
                              !.statusLog = RawStatus(raw_job, "downloading", P(0))]
    /\ UNCHANGED <<fnVars, jobVars, opsVars, tiled_job, tile_call, stdout_state, log_state>>

\* one chunk: status, export_image_chunk, and the status before georeferencing
RawExport(path) ==
    /\ raw_job.pc = "export"
    /\ LET k == raw_job.current_chunk + 1
           total == raw_job.n * raw_job.n
           cell == <<raw_job.row, raw_job.col>>
           j1 == [raw_job EXCEPT
                    !.current_chunk = k,
                    !.attempted = @ \cup {cell},
                    !.statusLog = RawStatus(raw_job, "downloading", <<50 * (k - 1), total>>)]
       IN  raw_job' =
             IF path
             THEN [j1 EXCEPT !.pc = "georef",
                             !.chunk_files = Append(@, cell),
                             !.statusLog = RawStatus(j1, "processing",
                                                     <<50 * total + 25 * (k - 1), total>>)]
             ELSE RawNextCol(j1)
    /\ UNCHANGED <<fnVars, jobVars, opsVars, tiled_job, tile_call, stdout_state, log_state>>

\* add_georeference_to_chunk returned a path or None
RawGeoref(path) ==
    /\ raw_job.pc = "georef"
    /\ LET cell == <<raw_job.row, raw_job.col>>
           j1 == IF path
                 THEN [raw_job EXCEPT !.georef_chunk_files = Append(@, cell)]
                 ELSE raw_job
       IN  raw_job' = RawNextCol(j1)
    /\ UNCHANGED <<fnVars, jobVars, opsVars, tiled_job, tile_call, stdout_state, log_state>>

\* merge_geotiff_chunks returned ok
RawMerge(ok) ==
    /\ raw_job.pc = "merge"
    /\ LET j1 == [raw_job EXCEPT
                    !.merge_calls = Append(@, [files |-> raw_job.georef_chunk_files,
                                               attempted |-> raw_job.attempted])]
       IN  raw_job' =
             IF ok
             THEN [j1 EXCEPT !.pc = "verify", !.output_file = "present",
                             !.statusLog = RawStatus(j1, "processing", P(90))]
             ELSE RawNextRow(j1)
    /\ UNCHANGED <<fnVars, jobVars, opsVars, tiled_job, tile_call, stdout_state, log_state>>

\* verify_geotiff returned ok
RawVerify(ok) ==
    /\ raw_job.pc = "verify"
    /\ raw_job' =
         IF ok
         THEN [raw_job EXCEPT !.pc = "done", !.result = "True",
                              !.statusLog = RawStatus(raw_job, "complete", P(100))]
         ELSE RawNextRow(raw_job)
    /\ UNCHANGED <<fnVars, jobVars, opsVars, tiled_job, tile_call, stdout_state, log_state>>

RawInit ==
    /\ fin = [kind |-> "none"] /\ fout = [kind |-> "none"]
    /\ JobIdle /\ OpsIdle
    /\ tiled_job = NoTiled /\ tile_call = NoTile
    /\ stdout_state = NoStdout /\ log_state = NoLog
    /\ \E n \in RawGrids, f \in {"absent", "present"} :
          raw_job = [NoRaw EXCEPT !.pc = "start", !.n = n, !.output_file = f]

RawNext ==
    \/ RawEnter
    \/ \E path \in BOOLEAN : RawExport(path)
    \/ \E path \in BOOLEAN : RawGeoref(path)
    \/ \E ok \in BOOLEAN : RawMerge(ok)
    \/ \E ok \in BOOLEAN : RawVerify(ok)

RawSpec == RawInit /\ [][RawNext]_vars

\* C22: in dem_fetcher_raw.DEMFetcher.download_high_res_dem every
\* merge_geotiff_chunks call, and every 'complete' status, comes after
\* export_image_chunk was attempted for every cell of the rows x cols grid.
C22_MergeAfterAllCells ==
    /\ \A i \in 1..Len(raw_job.merge_calls) :
          raw_job.merge_calls[i].attempted = RawCells(raw_job.n)
    /\ (\E i \in 1..Len(raw_job.statusLog) : raw_job.statusLog[i].status = "complete")
          => raw_job.attempted = RawCells(raw_job.n)

(***************************************************************************)
(* TileSpec: wcs_geotiff_handler.fetch_tile                                *)
(*                                                                         *)
(* tile_call.events lists, in order, every time.sleep and every            *)
(* requests.get of the call.  A request is answered in one of four ways:   *)
(* HTTP 200 with the body written to the tile file, HTTP 200 with an       *)
(* exception while the body is streamed to the file, another status code,  *)
(* or an exception raised by requests.get.                                 *)
(***************************************************************************)
tile_max_retries == 3
tile_retry_delay == 2

TileResponses == {"200", "200_save_raises", "non200", "exception"}

\* 'if attempt < max_retries: continue' with <= as the test
TileRetry_oneMore(att) == att <= tile_max_retries
\* lines 471-473 and 480-482: 'if attempt < max_retries: continue'
TileRetry(att) == att < tile_max_retries

TileGets(events) == { i \in 1..Len(events) : events[i].ev = "get" }

\* one iteration of the loop: the sleep of a retry, the request, and what
\* follows from the answer
TileAttempt(r) ==
    /\ tile_call.pc = "attempt"
    /\ r \in TileResponses
    /\ LET slept == IF tile_call.attempt > 0
                    THEN Append(tile_call.events,
                                [ev |-> "sleep", secs |-> tile_retry_delay, resp |-> ""])
                    ELSE tile_call.events
           asked == Append(slept, [ev |-> "get", secs |-> 0, resp |-> r])
       IN  tile_call' =
             IF r = "200"
             THEN [tile_call EXCEPT !.pc = "done", !.events = asked, !.result = "True"]
             ELSE IF TileRetry(tile_call.attempt)
                  THEN [tile_call EXCEPT !.attempt = @ + 1, !.events = asked]
                  ELSE [tile_call EXCEPT !.pc = "done", !.events = asked,
                                         !.result = "False"]
    /\ UNCHANGED <<fnVars, jobVars, opsVars, raw_job, tiled_job, stdout_state, log_state>>

TileInit ==
    /\ fin = [kind |-> "none"] /\ fout = [kind |-> "none"]
    /\ JobIdle /\ OpsIdle
    /\ raw_job = NoRaw /\ tiled_job = NoTiled
    /\ stdout_state = NoStdout /\ log_state = NoLog
    /\ tile_call = [NoTile EXCEPT !.pc = "attempt"]

TileNext == \E r \in TileResponses : TileAttempt(r)

TileSpec == TileInit /\ [][TileNext]_vars

\* C29 as stated: fetch_tile returns True at the first HTTP 200 - every
\* request answered with status 200 is the last request of the call and the
\* call returns True.
C29_TrueAtFirst200 ==
    \A i \in TileGets(tile_call.events) :
        tile_call.events[i].resp \in {"200", "200_save_raises"}
            => (i = Len(tile_call.events) /\ tile_call.result = "True")

\* C29 amended: fetch_tile sends at most 4 requests, sleeps 2 seconds before
\* each request but the first and at no other time, returns True at the first
\* HTTP 200 whose body was written to the tile file, returns False after the
\* fourth failed attempt, and never raises.
C29_FetchTileRetries ==
    LET ev == tile_call.events
        gets == TileGets(ev)
    IN  /\ Cardinality(gets) <= 4
        /\ \A i \in 1..Len(ev) :
              /\ (i % 2 = 1) => ev[i].ev = "get"
              /\ (i % 2 = 0) => (ev[i].ev = "sleep" /\ ev[i].secs = 2)
        /\ \A i \in gets : ev[i].resp = "200" => i = Len(ev)
        /\ tile_call.pc = "done" =>
              /\ tile_call.result \in {"True", "False"}
              /\ tile_call.result = "True" <=> ev[Len(ev)].resp = "200"
              /\ tile_call.result = "False" => Cardinality(gets) = 4
        /\ tile_call.pc = "attempt" =>
              (Cardinality(gets) < 4 /\ tile_call.result = "none")

\* a call that returned True on its third request after a 200 whose body
\* could not be saved
C29_Witness ==
    /\ tile_call.pc = "done" /\ tile_call.result = "True"
    /\ Cardinality(TileGets(tile_call.events)) = 3
    /\ \E i \in TileGets(tile_call.events) :
          tile_call.events[i].resp = "200_save_raises"

(***************************************************************************)
(* TiledSpec: wcs_geotiff_handler.fetch_geotiff_dem_tiled                  *)
(*                                                                         *)
(* Tiles are numbered 1..total_tiles in the order of the loops over y and  *)
(* x.  fetch_tile returns True or False (TileSpec); rasterio.open of a     *)
(* tile file succeeds or raises; merging and writing the mosaic succeeds   *)
(* or raises.  fetch_log and open_log record what happened to each tile,   *)
(* merge the outcome of the merge and src_files_to_mosaic its argument.    *)
(***************************************************************************)
\* num_tiles_x and num_tiles_y as computed from the bbox and the resolution
TileCounts == {1, 2}

total_tiles(j) == j.num_tiles_x * j.num_tiles_y

\* lines 308-311 with every tile appended whatever fetch_tile returned
TiledKeep_all(files, t, ok) == Append(files, t)
\* lines 308-311: the tile file joins tile_files only when fetch_tile succeeded
TiledKeep(files, t, ok) == IF ok THEN Append(files, t) ELSE files

TiledReturn(j, ok, msg) ==
    [j EXCEPT !.pc = "done", !.success = (IF ok THEN "True" ELSE "False"), !.message = msg]

\* lines 251-279: configuration, tile arithmetic and os.makedirs(tiles_dir);
\* an exception here is caught by the handler at line 399
TiledPrepare(raises) ==
    /\ tiled_job.pc = "prepare"
    /\ tiled_job' = IF raises
                    THEN TiledReturn(tiled_job, FALSE, "Error in tiled DEM fetching")
                    ELSE [tiled_job EXCEPT !.pc = "fetch"]
    /\ UNCHANGED <<fnVars, jobVars, opsVars, raw_job, tile_call, stdout_state, log_state>>

\* one iteration of the loops over y and x; after the last one the test of
\* tile_files
TiledFetch(ok) ==
    /\ tiled_job.pc = "fetch"
    /\ LET t == tiled_job.tile_count + 1
           j1 == [tiled_job EXCEPT
                    !.tile_count = t,
                    !.tile_files = TiledKeep(@, t, ok),
                    !.fetch_log = Append(@, [tile |-> t, ok |-> ok])]
       IN  tiled_job' =
             IF t < total_tiles(tiled_job) THEN j1
             ELSE IF j1.tile_files = <<>>
                  THEN TiledReturn(j1, FALSE, "No tiles were successfully fetched.")
                  ELSE [j1 EXCEPT !.pc = "open", !.oi = 1]
    /\ UNCHANGED <<fnVars, jobVars, opsVars, raw_job, tile_call, stdout_state, log_state>>

\* one iteration of the loop that opens the tile files; after the last one
\* the test of src_files_to_mosaic
TiledOpen(ok) ==
    /\ tiled_job.pc = "open"
    /\ LET t == tiled_job.tile_files[tiled_job.oi]
           j1 == [tiled_job EXCEPT
                    !.src_files_to_mosaic = IF ok THEN Append(@, t) ELSE @,
                    !.open_log = Append(@, [tile |-> t, ok |-> ok])]
       IN  tiled_job' =
             IF tiled_job.oi < Len(tiled_job.tile_files)
             THEN [j1 EXCEPT !.oi = @ + 1]
             ELSE IF j1.src_files_to_mosaic = <<>>
                  THEN TiledReturn(j1, FALSE, "No valid tile files to merge.")
                  ELSE [j1 EXCEPT !.pc = "merge"]
    /\ UNCHANGED <<fnVars, jobVars, opsVars, raw_job, tile_call, stdout_state, log_state>>

\* lines 340-360: merge(src_files_to_mosaic) and the writing of the mosaic
TiledMerge(raises) ==
    /\ tiled_job.pc = "merge"
    /\ tiled_job' =
         IF raises
         THEN TiledReturn([tiled_job EXCEPT !.merge = "raised"], FALSE,
                          "Error in tiled DEM fetching")
         ELSE [tiled_job EXCEPT !.pc = "finish", !.merge = "ok"]
    /\ UNCHANGED <<fnVars, jobVars, opsVars, raw_job, tile_call, stdout_state, log_state>>

\* lines 362-397: the reprojection of lidar_5m output, whose failure is only
\* printed, validate_geotiff, which returns nothing, and the success result
TiledFinish(reprojected) ==
    /\ tiled_job.pc = "finish"
    /\ (tiled_job.dem_type # "lidar_5m") => reprojected
    /\ tiled_job' = TiledReturn(tiled_job, TRUE,
                                IF reprojected THEN "" ELSE "Warning: Reprojection failed")
    /\ UNCHANGED <<fnVars, jobVars, opsVars, raw_job, tile_call, stdout_state, log_state>>

TiledInit ==
    /\ fin = [kind |-> "none"] /\ fout = [kind |-> "none"]
    /\ JobIdle /\ OpsIdle
    /\ raw_job = NoRaw /\ tile_call = NoTile
    /\ stdout_state = NoStdout /\ log_state = NoLog
    /\ \E t \in DOMAIN DEM_TYPES, nx \in TileCounts, ny \in TileCounts :
          tiled_job = [NoTiled EXCEPT !.pc = "prepare", !.dem_type = t,
                                      !.num_tiles_x = nx, !.num_tiles_y = ny]

TiledNext ==
    \/ \E raises \in BOOLEAN : TiledPrepare(raises)
    \/ \E ok \in BOOLEAN : TiledFetch(ok)
    \/ \E ok \in BOOLEAN : TiledOpen(ok)
    \/ \E raises \in BOOLEAN : TiledMerge(raises)
    \/ \E reprojected \in BOOLEAN : TiledFinish(reprojected)

TiledSpec == TiledInit /\ [][TiledNext]_vars

\* the tiles of a log whose entry says ok, in the order of the log
RECURSIVE Survivors(_)
Survivors(log) ==
    IF log = <<>> THEN <<>>
    ELSE IF log[1].ok THEN <<log[1].tile>> \o Survivors(Tail(log))
         ELSE Survivors(Tail(log))

\* C26: fetch_geotiff_dem_tiled tries every tile, merges exactly the tiles
\* that were fetched and could be opened, and returns success False exactly
\* when no tile was fetched, no fetched tile could be opened, or the merge
\* raised; a failed tile does not end the job while another tile survives.
C26_FailedTilesSkipped ==
    LET j == tiled_job
    IN  /\ j.merge # "none" =>
              /\ Len(j.fetch_log) = total_tiles(j)
              /\ Len(j.open_log) = Len(Survivors(j.fetch_log))
              /\ j.tile_files = Survivors(j.fetch_log)
              /\ j.src_files_to_mosaic = Survivors(j.open_log)
              /\ j.src_files_to_mosaic # <<>>
        /\ j.pc = "done" =>
              /\ j.success \in {"True", "False"}
              /\ j.success = "False" <=>
                    \/ Survivors(j.fetch_log) = <<>>
                    \/ Survivors(j.open_log) = <<>>
                    \/ j.merge = "raised"
        /\ j.pc \notin {"done", "idle"} => j.success = "none"

\* four tiles, one not fetched, one fetched but not opened, the other two
\* merged and the job successful
C26_Witness ==
    /\ tiled_job.pc = "done" /\ tiled_job.success = "True"
    /\ total_tiles(tiled_job) = 4
    /\ Len(tiled_job.tile_files) = 3
    /\ Len(tiled_job.src_files_to_mosaic) = 2

(***************************************************************************)
(* StdoutSpec: dem_operations.fetch_dem and the process-wide sys.stdout    *)
(*                                                                         *)
(* Streams are numbered: 0 is the stream sys.stdout was bound to when the  *)
(* process started, k > 0 the StringIO created by the k-th fetch_dem call. *)
(* The calls follow one another in one thread; stdout_state.calls records  *)
(* for each finished call its data_type, the way it returned, and          *)
(* sys.stdout on entry and on return.                                      *)
(***************************************************************************)
\* number of fetch_dem calls in a run
MaxFetchDemCalls == 3

\* data_type arguments: the two valid ones and one that is neither
FetchDemDataTypes == {"raw", "rgb", "dsm"}

\* how fetch_geotiff_dem / fetch_rgb_dem end
HandlerEndings == {"success", "failure", "raises"}

FetchDemReturn(st, path, stream) ==
    [st EXCEPT !.pc = "ready", !.sys_stdout = stream,
               !.calls = Append(@, [data_type |-> st.data_type, path |-> path,
                                    entry |-> st.original_stdout, exit |-> stream])]

\* lines 66-78: up to and including sys.stdout = captured_output
FetchDemEnter(dt) ==
    /\ stdout_state.pc = "ready"
    /\ Len(stdout_state.calls) < MaxFetchDemCalls
    /\ LET k == Len(stdout_state.calls) + 1
       IN  stdout_state' = [stdout_state EXCEPT
                              !.pc = "try", !.data_type = dt,
                              !.original_stdout = stdout_state.sys_stdout,
                              !.captured_output = k, !.sys_stdout = k]
    /\ UNCHANGED <<fnVars, jobVars, opsVars, raw_job, tiled_job, tile_call, log_state>>

\* lines 82-85 and 93-103, or 104-111 when the handler raised
FetchDemHandler(ending) ==
    /\ stdout_state.pc = "try"
    /\ stdout_state.data_type \in {"raw", "rgb"}
    /\ stdout_state' = FetchDemReturn(stdout_state,
                                      IF ending = "raises" THEN "except" ELSE "result",
                                      stdout_state.original_stdout)
    /\ UNCHANGED <<fnVars, jobVars, opsVars, raw_job, tiled_job, tile_call, log_state>>

\* lines 86-91: the return inside the try block for any other data_type
FetchDemInvalid ==
    /\ stdout_state.pc = "try"
    /\ stdout_state.data_type \notin {"raw", "rgb"}
    /\ stdout_state' = FetchDemReturn(stdout_state, "invalid", stdout_state.sys_stdout)
    /\ UNCHANGED <<fnVars, jobVars, opsVars, raw_job, tiled_job, tile_call, log_state>>

StdoutInit ==
    /\ fin = [kind |-> "none"] /\ fout = [kind |-> "none"]
    /\ JobIdle /\ OpsIdle
    /\ raw_job = NoRaw /\ tiled_job = NoTiled /\ tile_call = NoTile
    /\ log_state = NoLog
    /\ stdout_state = [NoStdout EXCEPT !.pc = "ready"]

StdoutNext ==
    \/ \E dt \in FetchDemDataTypes : FetchDemEnter(dt)
    \/ \E ending \in HandlerEndings : FetchDemHandler(ending)
    \/ FetchDemInvalid

StdoutSpec == StdoutInit /\ [][StdoutNext]_vars

\* C30: every fetch_dem call leaves sys.stdout equal to its value on entry,
\* whether the handler returned, the handler raised, or data_type was
\* invalid.
C30_StdoutRestored ==
    \A i \in 1..Len(stdout_state.calls) :
        stdout_state.calls[i].exit = stdout_state.calls[i].entry

(***************************************************************************)
(* LogSpec: the logging of two concurrent fetch_dem_thread workers         *)
(*                                                                         *)
(* Worker j serves job j and owns the log file <status_file of job j>.log. *)
(* Both workers use logging.getLogger('dem_fetch'), one logger object of   *)
(* the process, and the attribute builtins.print, one attribute of the     *)
(* process.  log_state.handlers is the set of workers whose FileHandler is *)
(* attached to that logger; log_state.builtins_print is 0 for the print    *)
(* function of the interpreter and j for the logging_print closure made by *)
(* worker j; log_state.log_files[j] is the set of jobs that lines of log   *)
(* file j came from.                                                       *)
(***************************************************************************)
LogWorkers == {1, 2}

\* print calls made by one DEM handler
MaxHandlerLines == 1

\* thread_logger.handle / .info / .error: the record goes to every handler
\* attached to logger 'dem_fetch'
LoggerEmit(files, handlers, job) ==
    [k \in LogWorkers |-> IF k \in handlers THEN files[k] \cup {job} ELSE files[k]]

\* a call of the function builtins.print is bound to, made by the DEM
\* handler of job: logging_print of worker p first calls the original_print
\* it saved, then hands the line to the logger
RECURSIVE call_builtins_print(_, _, _, _)
call_builtins_print(p, st, files, job) ==
    IF p = 0 THEN files
    ELSE LoggerEmit(call_builtins_print(st.original_print[p], st, files, job),
                    st.handlers, job)

\* lines 566-574: addHandler and the two initial messages
LogAttach(j) ==
    /\ log_state.pc[j] = "start"
    /\ LET hs == log_state.handlers \cup {j}
       IN  log_state' = [log_state EXCEPT
                           !.pc[j] = "ready",
                           !.handlers = hs,
                           !.log_files = LoggerEmit(@, hs, j)]
    /\ UNCHANGED <<fnVars, jobVars, opsVars, raw_job, tiled_job, tile_call, stdout_state>>

\* LoggingDEMHandler.__call__ lines 583-606: save builtins.print, replace it
LogHandlerEnter(j) ==
    /\ log_state.pc[j] = "ready"
    /\ log_state' = [log_state EXCEPT
                       !.pc[j] = "running",
                       !.original_print[j] = log_state.builtins_print,
                       !.builtins_print = j]
    /\ UNCHANGED <<fnVars, jobVars, opsVars, raw_job, tiled_job, tile_call, stdout_state>>

\* a print(...) statement of the DEM handler running in worker j
LogHandlerLine(j) ==
    /\ log_state.pc[j] = "running"
    /\ log_state.printed[j] < MaxHandlerLines
    /\ log_state' = [log_state EXCEPT
                       !.printed[j] = @ + 1,
                       !.log_files = call_builtins_print(log_state.builtins_print,
                                                       log_state, @, j)]
    /\ UNCHANGED <<fnVars, jobVars, opsVars, raw_job, tiled_job, tile_call, stdout_state>>

\* lines 608-615: the handler returned or raised; finally restores the saved print
LogHandlerExit(j) ==
    /\ log_state.pc[j] = "running"
    /\ log_state' = [log_state EXCEPT
                       !.pc[j] = "returned",
                       !.builtins_print = log_state.original_print[j]]
    /\ UNCHANGED <<fnVars, jobVars, opsVars, raw_job, tiled_job, tile_call, stdout_state>>

\* lines 675, 711-712 or 750: the completion or error message of the job
LogOutcome(j) ==
    /\ log_state.pc[j] = "returned"
    /\ log_state' = [log_state EXCEPT
                       !.pc[j] = "logged",
                       !.log_files = LoggerEmit(@, log_state.handlers, j)]
    /\ UNCHANGED <<fnVars, jobVars, opsVars, raw_job, tiled_job, tile_call, stdout_state>>

\* lines 754-756: removeHandler in the finally clause
LogDetach(j) ==
    /\ log_state.pc[j] = "logged"
    /\ log_state' = [log_state EXCEPT
                       !.pc[j] = "done",
                       !.handlers = @ \ {j}]
    /\ UNCHANGED <<fnVars, jobVars, opsVars, raw_job, tiled_job, tile_call, stdout_state>>

LogInit ==
    /\ fin = [kind |-> "none"] /\ fout = [kind |-> "none"]
    /\ JobIdle /\ OpsIdle
    /\ raw_job = NoRaw /\ tiled_job = NoTiled /\ tile_call = NoTile
    /\ stdout_state = NoStdout
    /\ log_state = [NoLog EXCEPT !.pc = <<"start", "start">>]

LogNext ==
    \/ \E j \in LogWorkers : LogAttach(j)
    \/ \E j \in LogWorkers : LogHandlerEnter(j)
    \/ \E j \in LogWorkers : LogHandlerLine(j)
    \/ \E j \in LogWorkers : LogHandlerExit(j)
    \/ \E j \in LogWorkers : LogOutcome(j)
    \/ \E j \in LogWorkers : LogDetach(j)

LogSpec == LogInit /\ [][LogNext]_vars

\* C21: in every interleaving of two fetch_dem_thread workers the log file
\* of a job holds only lines of that job, and once both workers have
\* finished builtins.print is the print function of the interpreter again.
C21_WorkersShareNothing ==
    /\ \A j \in LogWorkers : log_state.log_files[j] \subseteq {j}
    /\ (\A j \in LogWorkers : log_state.pc[j] = "done") => log_state.builtins_print = 0

=============================================================================
